---- MODULE Spec2Model ----
(***************************************************************************)
(* Task orchestration core of claude-discord-manager.                      *)
(*                                                                         *)
(* Coordinator: TaskManager (task/manager.ts), TaskQueue (task/queue.ts),  *)
(* WorkerRegistry and WsServer (ws/server.ts), wired by index.ts and       *)
(* discord/bot.ts.  Worker: WorkerApp (worker index.ts), WsClient          *)
(* (worker ws/client.ts), ClaudeExecutor (claude/executor.ts).             *)
(*                                                                         *)
(* Every handler runs on one event loop.  An action is the synchronous     *)
(* part of one handler: from its invocation to its first await on an       *)
(* asynchronous callback, or from the resumption after such an await to    *)
(* the next one.  Timers are events that may fire whenever they are armed. *)
(*                                                                         *)
(* Spec is the whole system without a clock.  QueueSpec is the coordinator *)
(* alone with enough task creations to fill the queue.  TimedSpec is the   *)
(* registry with a clock, where heartbeat watchdogs expire when due.       *)
(* ToolSpec and TokenSpec are the coordinator with one worker whose CLI    *)
(* reports tool uses and token usage.  ThrottleSpec is the same with a     *)
(* clock for the status-update throttle.  WorkerAppSpec is one WorkerApp   *)
(* with its CLI process, task timer and temp directories, taken alone, and *)
(* WsClientSpec is its WsClient connecting and reconnecting.  ParserSpec   *)
(* is the StreamJsonParser fed any short text in any chunks.  TimeoutSpec  *)
(* is the system without cancellations and disconnections, where an armed  *)
(* task-timeout timer does expire.                                         *)
(*                                                                         *)
(* Frames from the coordinator to a worker (task:assign, task:cancel) stay *)
(* in flight for any time.  A frame from a worker to the coordinator is    *)
(* handled in the step that sends it: the worker's own events (heartbeat   *)
(* tick, CLI output, CLI exit, socket close) happen at any time, and what  *)
(* the worker sends depends only on the frames it has received so far, so  *)
(* every order of events the coordinator can see is still there.           *)
(***************************************************************************)
EXTENDS Integers, Sequences, FiniteSets, TLC

\* null of a string-valued field, of a task id, of a connection handle
NULL == "null"
NoTask == 0
NoConn == 0
\* a text is a sequence of chunks; NullText stands for the JavaScript null
NullText == <<"null">>

\* ---- bounds of the model ----
MaxTasks == 2
MaxConns == 2
MaxStream == 1
\* task ids created in the specification of the full queue
MaxQueueTasks == 52
\* the clock of the timed specification stops at MaxTime and advances by at most TickMs
MaxTime == 120000
TickMs == 20000
\* tool_use_begin records relayed for one task in the specification of the tool history
MaxToolHistory == 3
\* largest value of a token counter accumulated by a worker in the specification of token usage
MaxTokens == 3
\* the clock of the specification of the update throttle stops at MaxThrottleTime;
\* one tick of it is at most ThrottleTickMs
MaxThrottleTime == 3000
ThrottleTickMs == 500
\* task:assign frames received by the worker in the specification of the worker taken alone
MaxAssignments == 2
\* transport closes of the worker's client without a registration in between,
\* in the specification of the reconnecting client
MaxCloses == 8
\* characters written to stdout by the CLI in the specification of the parser
MaxText == 6

\* ---- program constants ----
TASK_MAX_QUEUE_SIZE == 50
WS_HEARTBEAT_INTERVAL_MS == 30000
DISCORD_STATUS_UPDATE_INTERVAL_MS == 1000
WS_RECONNECT_BASE_MS == 1000
WS_RECONNECT_MAX_MS == 60000

WorkerNames == {"w1", "w2"}
ToolNames == {"Read", "Bash"}

\* TokenUsage
ZeroTokens == [inputTokens |-> 0, outputTokens |-> 0, cacheReadTokens |-> 0, cacheWriteTokens |-> 0]

Queued == "queued"
Running == "running"
Completed == "completed"
Failed == "failed"
Cancelled == "cancelled"
TerminalStatus == {Completed, Failed, Cancelled}

Online == "online"
Busy == "busy"
Offline == "offline"

\* manager.ts:392, the message set by handleWorkerDisconnect (non-ASCII in the source)
WORKER_DISCONNECT_MESSAGE == "worker disconnected: execution interrupted"
\* manager.ts:480, the reason passed by the task-timeout timer (non-ASCII in the source)
TIMEOUT_REASON == "timeout"
USER_REASON == "User requested cancellation"
SECRET == "secret"

ConnIds == 1..MaxConns
TaskIds == 1..MaxTasks

VARIABLES
  \* TaskManager
  tasks,            \* Map taskId -> Task
  taskIdCounter,
  timeoutTimers,    \* task ids with an armed task-timeout timer
  updateTimers,     \* armed throttle (trailing update) timers: task id -> time at which it is due
  lastUpdateTime,   \* lastUpdateTime: task id -> time of the task's last status update
  pendingDispatch,  \* handlers suspended in an await before their trailing dispatchNext()
  failScans,        \* handleWorkerDisconnect loops suspended in await onTaskFailed
  \* TaskQueue
  queue,
  \* WorkerRegistry
  workers,          \* Map workerId -> WorkerInfo, in insertion order
  connections,      \* Map workerId -> connection
  heartbeatTimers,  \* Map workerId -> armed heartbeat watchdog, as the time at which it is due
  now,              \* Date.now(), in ms since the coordinator started
  roundRobinIndex,
  \* WsServer, one closure per accepted connection
  connState,        \* connection id -> "none" | "open" | "closed"  (server side)
  connWorkerId,     \* the closure variable workerId (NULL until authenticated)
  \* transport
  toWorker,         \* connection id -> frames in flight, coordinator to worker
  \* Worker processes, one per configured name
  wConn,            \* WsClient.ws: the registered connection in use, or NoConn
  wTask,            \* WorkerApp.currentTaskId = WsClient.currentTaskId
  wTokens,          \* WorkerApp.accumulatedTokens
  wApp              \* one WorkerApp with its ClaudeExecutor, CLI process and temp directories

coordVars == <<tasks, taskIdCounter, timeoutTimers, updateTimers, lastUpdateTime, pendingDispatch, failScans,
               queue, workers, connections, heartbeatTimers, now, roundRobinIndex>>
srvVars == <<connState, connWorkerId>>
workerVars == <<wConn, wTask, wTokens, wApp>>
vars == <<coordVars, srvVars, toWorker, workerVars>>

\* ---- generic helpers ----
RECURSIVE Gcd(_, _)
Gcd(a, b) == IF b = 0 THEN a ELSE Gcd(b, a % b)

RECURSIVE LcmUpTo(_)
LcmUpTo(n) == IF n <= 1 THEN 1 ELSE LET l == LcmUpTo(n - 1) IN (l * n) \div Gcd(l, n)

\* roundRobinIndex is only ever read modulo the number of Online workers,
\* so it is kept modulo a common multiple of every possible such number.
RRModulus == LcmUpTo(Cardinality(WorkerNames))

RemoveAt(s, i) == SubSeq(s, 1, i - 1) \o SubSeq(s, i + 1, Len(s))

RECURSIVE IndexOf(_, _, _)
IndexOf(s, x, i) == IF i > Len(s) THEN 0 ELSE IF s[i] = x THEN i ELSE IndexOf(s, x, i + 1)

\* ---- protocol ----
\* The envelope and its payload, flattened: taskId is the envelope's taskId
\* (NoTask when absent), workerId the envelope's workerId (the register
\* payload's name is the same value), currentTaskId the heartbeat payload's
\* field, text the payload's secret / success / eventType / reason / code.
createMessage(type, text, taskId, workerId, currentTaskId) ==
  [type |-> type, text |-> text, taskId |-> taskId, workerId |-> workerId,
   currentTaskId |-> currentTaskId]

\* ---- the coordinator's state as one value, threaded through the handlers ----
Ctx == [tasks |-> tasks, taskIdCounter |-> taskIdCounter, timeoutTimers |-> timeoutTimers,
        updateTimers |-> updateTimers, lastUpdateTime |-> lastUpdateTime,
        pendingDispatch |-> pendingDispatch, failScans |-> failScans, queue |-> queue,
        workers |-> workers, connections |-> connections,
        heartbeatTimers |-> heartbeatTimers, now |-> now,
        roundRobinIndex |-> roundRobinIndex,
        connState |-> connState, toWorker |-> toWorker, fired |-> <<>>, ret |-> "none"]

Commit(c) ==
  \E k \in {c} :
    /\ tasks' = k.tasks
    /\ updateTimers' = k.updateTimers
    /\ lastUpdateTime' = k.lastUpdateTime
    /\ taskIdCounter' = k.taskIdCounter
    /\ timeoutTimers' = k.timeoutTimers
    /\ pendingDispatch' = k.pendingDispatch
    /\ failScans' = k.failScans
    /\ queue' = k.queue
    /\ workers' = k.workers
    /\ connections' = k.connections
    /\ heartbeatTimers' = k.heartbeatTimers
    /\ now' = k.now
    /\ roundRobinIndex' = k.roundRobinIndex
    /\ connState' = k.connState
    /\ toWorker' = k.toWorker

Fire(c, cb, taskId) == [c EXCEPT !.fired = Append(@, <<cb, taskId>>)]

\* ---- TaskQueue ----
enqueue_TestAfterFull(c, taskId) ==
  IF Len(c.queue) > TASK_MAX_QUEUE_SIZE THEN [c EXCEPT !.ret = "false"]
  ELSE [c EXCEPT !.queue = Append(@, taskId), !.ret = "true"]

\* ret is the boolean returned
enqueue(c, taskId) ==
  IF Len(c.queue) >= TASK_MAX_QUEUE_SIZE THEN [c EXCEPT !.ret = "false"]
  ELSE [c EXCEPT !.queue = Append(@, taskId), !.ret = "true"]

dequeue_DropsLast(c) == [c EXCEPT !.queue = IF @ = <<>> THEN @ ELSE SubSeq(@, 1, Len(@) - 1)]

dequeue(c) == [c EXCEPT !.queue = IF @ = <<>> THEN @ ELSE Tail(@)]

remove_DropsHead(c, taskId) ==
  LET index == IndexOf(c.queue, taskId, 1) IN
  IF index = 0 THEN c ELSE [c EXCEPT !.queue = Tail(@)]

remove(c, taskId) ==
  LET index == IndexOf(c.queue, taskId, 1) IN
  IF index = 0 THEN c ELSE [c EXCEPT !.queue = RemoveAt(@, index)]

\* ---- WorkerRegistry ----
WorkerIndex(ws, workerId) ==
  IF \E i \in DOMAIN ws : ws[i].id = workerId
  THEN CHOOSE i \in DOMAIN ws : ws[i].id = workerId
  ELSE 0

HasWorker(ws, workerId) == WorkerIndex(ws, workerId) # 0
GetWorker(ws, workerId) == ws[WorkerIndex(ws, workerId)]

\* Map.set: an existing key keeps its position, a new key goes last
MapSet(ws, info) ==
  IF HasWorker(ws, info.id) THEN [ws EXCEPT ![WorkerIndex(ws, info.id)] = info]
  ELSE Append(ws, info)

MapDelete(ws, workerId) ==
  IF HasWorker(ws, workerId) THEN RemoveAt(ws, WorkerIndex(ws, workerId)) ELSE ws

setWorkerStatus(c, workerId, status) ==
  IF HasWorker(c.workers, workerId)
  THEN [c EXCEPT !.workers[WorkerIndex(c.workers, workerId)].status = status]
  ELSE c

setWorkerCurrentTask(c, workerId, taskId) ==
  IF HasWorker(c.workers, workerId)
  THEN [c EXCEPT !.workers[WorkerIndex(c.workers, workerId)].currentTaskId = taskId]
  ELSE c

\* ws.send on a connection the server still holds open
wsSend(c, conn, msg) ==
  IF c.connState[conn] = "open" THEN [c EXCEPT !.toWorker[conn] = Append(@, msg)] ELSE c

sendToWorker(c, workerId, msg) ==
  IF workerId \in DOMAIN c.connections /\ c.connState[c.connections[workerId]] = "open"
  THEN wsSend(c, c.connections[workerId], msg)
  ELSE c

\* the watchdog that keeps the timer it finds armed instead of replacing it
startHeartbeatMonitor_KeepsTimer(c, workerId) ==
  IF workerId \in DOMAIN c.heartbeatTimers THEN c
  ELSE [c EXCEPT !.heartbeatTimers = [w \in DOMAIN @ \cup {workerId} |->
                                        IF w = workerId THEN c.now + WS_HEARTBEAT_INTERVAL_MS * 2
                                        ELSE @[w]]]

\* clearTimeout of the existing timer, then setTimeout(..., WS_HEARTBEAT_INTERVAL_MS * 2)
startHeartbeatMonitor(c, workerId) ==
  [c EXCEPT !.heartbeatTimers = [w \in DOMAIN @ \cup {workerId} |->
                                   IF w = workerId THEN c.now + WS_HEARTBEAT_INTERVAL_MS * 2
                                   ELSE @[w]]]

onlineWorkers(ws) == SelectSeq(ws, LAMBDA w : w.status = Online)

getAvailableWorker_CountsFirst(c, preferredWorkerId) ==
  IF /\ preferredWorkerId # NULL
     /\ HasWorker(c.workers, preferredWorkerId)
     /\ GetWorker(c.workers, preferredWorkerId).status = Online
  THEN [worker |-> preferredWorkerId, ctx |-> c]
  ELSE LET on == onlineWorkers(c.workers)
           c1 == [c EXCEPT !.roundRobinIndex = (@ + 1) % RRModulus]
       IN IF Len(on) = 0 THEN [worker |-> NULL, ctx |-> c1]
          ELSE [worker |-> on[(c.roundRobinIndex % Len(on)) + 1].id, ctx |-> c1]

\* getAvailableWorker without the status test on the preferred worker
getAvailableWorker_AnyPreferred(c, preferredWorkerId) ==
  IF /\ preferredWorkerId # NULL
     /\ HasWorker(c.workers, preferredWorkerId)
  THEN [worker |-> preferredWorkerId, ctx |-> c]
  ELSE LET on == onlineWorkers(c.workers) IN
       IF Len(on) = 0 THEN [worker |-> NULL, ctx |-> c]
       ELSE [worker |-> on[(c.roundRobinIndex % Len(on)) + 1].id,
             ctx |-> [c EXCEPT !.roundRobinIndex = (@ + 1) % RRModulus]]

\* result: the chosen worker id (NULL for none) and the registry after the call
getAvailableWorker(c, preferredWorkerId) ==
  IF /\ preferredWorkerId # NULL
     /\ HasWorker(c.workers, preferredWorkerId)
     /\ GetWorker(c.workers, preferredWorkerId).status = Online
  THEN [worker |-> preferredWorkerId, ctx |-> c]
  ELSE LET on == onlineWorkers(c.workers) IN
       IF Len(on) = 0 THEN [worker |-> NULL, ctx |-> c]
       ELSE [worker |-> on[(c.roundRobinIndex % Len(on)) + 1].id,
             ctx |-> [c EXCEPT !.roundRobinIndex = (@ + 1) % RRModulus]]

\* ---- TaskManager ----
NewTask == [status |-> Queued, workerId |-> NULL, resultText |-> NullText,
            errorMessage |-> NULL, toolHistory |-> <<>>, tokenUsage |-> ZeroTokens]

\* options.workerId is the preferred worker chosen by the caller; the task
\* literal sets workerId to null whatever the options say.  The value returned
\* by enqueue is dropped and the new task is returned (ret stays as it was).
createTask(c, options) ==
  LET taskId == c.taskIdCounter + 1
      c1 == [c EXCEPT !.taskIdCounter = taskId,
                      !.tasks = [i \in 1..taskId |-> IF i = taskId THEN NewTask ELSE c.tasks[i]]]
  IN [enqueue(c1, taskId) EXCEPT !.ret = c.ret]

\* setTaskTimeout without the setTimeout call
setTaskTimeout_NoTimer(c, taskId) == c

setTaskTimeout(c, taskId) == [c EXCEPT !.timeoutTimers = @ \cup {taskId}]

clearTaskTimeout(c, taskId) == [c EXCEPT !.timeoutTimers = @ \ {taskId}]

\* clearThrottleTimer without clearTimeout and updateTimers.delete
clearThrottleTimer_KeepTimer(c, taskId) ==
  [c EXCEPT !.lastUpdateTime = [t \in DOMAIN @ \ {taskId} |-> @[t]]]

clearThrottleTimer(c, taskId) ==
  [c EXCEPT !.updateTimers = [t \in DOMAIN @ \ {taskId} |-> @[t]],
            !.lastUpdateTime = [t \in DOMAIN @ \ {taskId} |-> @[t]]]

\* intervalPassed: whether DISCORD_STATUS_UPDATE_INTERVAL_MS has passed since the
\* recorded last update; without a recorded update lastUpdate is 0 and it has
throttledUpdate(c, taskId, intervalPassed) ==
  IF taskId \notin DOMAIN c.lastUpdateTime \/ intervalPassed
  THEN Fire([c EXCEPT !.lastUpdateTime = [t \in DOMAIN @ \cup {taskId} |->
                                            IF t = taskId THEN c.now ELSE @[t]]],
            "onTaskStreamUpdate", taskId)
  ELSE IF taskId \in DOMAIN c.updateTimers THEN c
  ELSE \* delay = interval - elapsed: the timer is due at lastUpdate + interval
       [c EXCEPT !.updateTimers = [t \in DOMAIN @ \cup {taskId} |->
                                     IF t = taskId
                                     THEN c.lastUpdateTime[taskId] + DISCORD_STATUS_UPDATE_INTERVAL_MS
                                     ELSE @[t]]]

\* the trailing timer set by throttledUpdate fires
throttleTimerFired(c, taskId) ==
  Fire([c EXCEPT !.updateTimers = [t \in DOMAIN @ \ {taskId} |-> @[t]],
                 !.lastUpdateTime = [t \in DOMAIN @ \cup {taskId} |->
                                       IF t = taskId THEN c.now ELSE @[t]]],
       "onTaskStreamUpdate", taskId)

dispatchNext(c) ==
  IF c.queue = <<>> THEN c
  ELSE
    LET taskId == Head(c.queue) IN
    IF taskId \notin DOMAIN c.tasks THEN dequeue(c)
    ELSE
      LET r == getAvailableWorker(c, NULL) IN
      IF r.worker = NULL THEN r.ctx
      ELSE
        LET c1 == dequeue(r.ctx)
            c2 == [c1 EXCEPT !.tasks[taskId].status = Running,
                             !.tasks[taskId].workerId = r.worker]
            c3 == setWorkerStatus(c2, r.worker, Busy)
            c4 == setWorkerCurrentTask(c3, r.worker, taskId)
            c5 == sendToWorker(c4, r.worker,
                     createMessage("task:assign", "", taskId, r.worker, NoTask))
            c6 == setTaskTimeout(c5, taskId)
        IN Fire(c6, "onTaskStarted", taskId)

\* the handler is suspended in (await callback) before its trailing dispatchNext()
AwaitThenDispatch(c) == [c EXCEPT !.pendingDispatch = @ + 1]

\* releaseWorker without the setWorkerCurrentTask(workerId, null) call
releaseWorker_StatusOnly(c, workerId) ==
  IF workerId # NULL THEN setWorkerStatus(c, workerId, Online) ELSE c

releaseWorker(c, workerId) ==
  IF workerId # NULL
  THEN setWorkerCurrentTask(setWorkerStatus(c, workerId, Online), workerId, NoTask)
  ELSE c

IsRunning(c, taskId) == taskId \in DOMAIN c.tasks /\ c.tasks[taskId].status = Running

\* the loop of the tool_use_end case started at the oldest entry
findRunningEntry_FromStart(toolHistory, toolName) ==
  LET found == {i \in DOMAIN toolHistory :
                  toolHistory[i].toolName = toolName /\ toolHistory[i].status = "running"}
  IN IF found = {} THEN 0 ELSE CHOOSE i \in found : \A j \in found : i <= j

\* the loop of the tool_use_end case: the index of the entry it updates, from
\* the newest entry down to the oldest (0: the loop ends without a match)
findRunningEntry(toolHistory, toolName) ==
  LET found == {i \in DOMAIN toolHistory :
                  toolHistory[i].toolName = toolName /\ toolHistory[i].status = "running"}
  IN IF found = {} THEN 0 ELSE CHOOSE i \in found : \A j \in found : i >= j

\* payload.text is the eventType; the fields of payload.data are fields of payload
handleStreamUpdate(c, taskId, payload, elapsed) ==
  IF ~IsRunning(c, taskId) THEN c
  ELSE
    LET c1 == CASE payload.text = "assistant_message" ->
                     [c EXCEPT !.tasks[taskId].resultText =
                        (IF @ = NullText THEN <<>> ELSE @) \o <<"a">>]
                [] payload.text = "tool_use_begin" ->
                     [c EXCEPT !.tasks[taskId].toolHistory =
                        Append(@, [toolName |-> payload.toolName, summary |-> payload.summary,
                                   status |-> "running"])]
                [] payload.text = "tool_use_end" ->
                     LET i == findRunningEntry(c.tasks[taskId].toolHistory, payload.toolName) IN
                     IF i = 0 THEN c
                     ELSE [c EXCEPT !.tasks[taskId].toolHistory[i].status =
                                      IF payload.success THEN "completed" ELSE "error",
                                    !.tasks[taskId].toolHistory[i].summary = payload.summary]
                [] payload.text = "token_usage" ->
                     [c EXCEPT !.tasks[taskId].tokenUsage = payload.tokenUsage]
                [] payload.text = "error" ->
                     [c EXCEPT !.tasks[taskId].errorMessage = "stream error"]
                [] OTHER -> c
    IN throttledUpdate(c1, taskId, elapsed)

\* handleTaskComplete without the status test of its first line
handleTaskComplete_NoStatusTest(c, taskId, payload) ==
  IF taskId \notin DOMAIN c.tasks THEN c
  ELSE
    LET c1 == [c EXCEPT !.tasks[taskId].status = Completed,
                        !.tasks[taskId].resultText = <<>>,
                        !.tasks[taskId].tokenUsage = payload.tokenUsage]
        c2 == releaseWorker(c1, c1.tasks[taskId].workerId)
        c3 == clearThrottleTimer(clearTaskTimeout(c2, taskId), taskId)
    IN AwaitThenDispatch(Fire(c3, "onTaskCompleted", taskId))

\* handleTaskComplete suspended before its writes: the receiving step only
\* leaves the handler waiting
handleTaskComplete_WritesAfterAwait(c, taskId, payload) ==
  IF ~IsRunning(c, taskId) THEN c ELSE AwaitThenDispatch(c)

handleTaskComplete(c, taskId, payload) ==
  IF ~IsRunning(c, taskId) THEN c
  ELSE
    LET c1 == [c EXCEPT !.tasks[taskId].status = Completed,
                        !.tasks[taskId].resultText = <<>>,
                        !.tasks[taskId].tokenUsage = payload.tokenUsage]
        c2 == releaseWorker(c1, c1.tasks[taskId].workerId)
        c3 == clearThrottleTimer(clearTaskTimeout(c2, taskId), taskId)
    IN AwaitThenDispatch(Fire(c3, "onTaskCompleted", taskId))

\* handleTaskError without the onTaskFailed call
handleTaskError_NoCallback(c, taskId, payload) ==
  IF ~IsRunning(c, taskId) THEN c
  ELSE
    LET c1 == [c EXCEPT !.tasks[taskId].status = Failed,
                        !.tasks[taskId].errorMessage = payload.text,
                        !.tasks[taskId].tokenUsage = payload.tokenUsage]
        c2 == releaseWorker(c1, c1.tasks[taskId].workerId)
        c3 == clearThrottleTimer(clearTaskTimeout(c2, taskId), taskId)
    IN AwaitThenDispatch(c3)

handleTaskError(c, taskId, payload) ==
  IF ~IsRunning(c, taskId) THEN c
  ELSE
    LET c1 == [c EXCEPT !.tasks[taskId].status = Failed,
                        !.tasks[taskId].errorMessage = payload.text,
                        !.tasks[taskId].tokenUsage = payload.tokenUsage]
        c2 == releaseWorker(c1, c1.tasks[taskId].workerId)
        c3 == clearThrottleTimer(clearTaskTimeout(c2, taskId), taskId)
    IN AwaitThenDispatch(Fire(c3, "onTaskFailed", taskId))

\* cancelTask without the early return for a terminal task
cancelTask_NoTerminalTest(c, taskId, reason) ==
  IF taskId \notin DOMAIN c.tasks THEN [c EXCEPT !.ret = "false"]
  ELSE
    LET task == c.tasks[taskId]
        c1 == IF task.status = Queued
              THEN [remove(c, taskId) EXCEPT !.tasks[taskId].status = Cancelled]
              ELSE IF task.status = Running /\ task.workerId # NULL
              THEN LET s1 == sendToWorker(c, task.workerId,
                               createMessage("task:cancel", reason, taskId, task.workerId, NoTask))
                       s2 == [s1 EXCEPT !.tasks[taskId].status = Cancelled]
                   IN releaseWorker(s2, task.workerId)
              ELSE c
        c2 == clearThrottleTimer(clearTaskTimeout(c1, taskId), taskId)
    IN [AwaitThenDispatch(Fire(c2, "onTaskCancelled", taskId)) EXCEPT !.ret = "true"]

cancelTask(c, taskId, reason) ==
  IF taskId \notin DOMAIN c.tasks THEN [c EXCEPT !.ret = "false"]
  ELSE IF c.tasks[taskId].status \in TerminalStatus THEN [c EXCEPT !.ret = "false"]
  ELSE
    LET task == c.tasks[taskId]
        c1 == IF task.status = Queued
              THEN [remove(c, taskId) EXCEPT !.tasks[taskId].status = Cancelled]
              ELSE IF task.status = Running /\ task.workerId # NULL
              THEN LET s1 == sendToWorker(c, task.workerId,
                               createMessage("task:cancel", reason, taskId, task.workerId, NoTask))
                       s2 == [s1 EXCEPT !.tasks[taskId].status = Cancelled]
                   IN releaseWorker(s2, task.workerId)
              ELSE c
        c2 == clearThrottleTimer(clearTaskTimeout(c1, taskId), taskId)
    IN [AwaitThenDispatch(Fire(c2, "onTaskCancelled", taskId)) EXCEPT !.ret = "true"]

\* the loop of handleWorkerDisconnect from task index `from` up to its next await
failRunningTasksFrom(c, workerId, from) ==
  LET hit == {i \in from..c.taskIdCounter :
                c.tasks[i].workerId = workerId /\ c.tasks[i].status = Running}
  IN IF hit = {} THEN c
     ELSE
       LET i == CHOOSE j \in hit : \A k \in hit : j <= k
           c1 == [c EXCEPT !.tasks[i].status = Failed,
                           !.tasks[i].errorMessage = WORKER_DISCONNECT_MESSAGE]
           c2 == clearThrottleTimer(clearTaskTimeout(c1, i), i)
       IN [Fire(c2, "onTaskFailed", i) EXCEPT
             !.failScans = @ \cup {[workerId |-> workerId, next |-> i + 1]}]

handleWorkerDisconnect(c, workerId) == failRunningTasksFrom(c, workerId, 1)

\* bot.ts calls taskManager.handleWorkerConnected(), whose body is not in the
\* sources at hand: "a later register unblocks dispatch"
handleWorkerConnected(c) == dispatchNext(c)

\* ---- callbacks wired by index.ts and discord/bot.ts ----
onWorkerConnected(c, workerId) == handleWorkerConnected(c)

onWorkerDisconnected(c, workerId, hadRunningTask) ==
  IF hadRunningTask THEN handleWorkerDisconnect(c, workerId) ELSE c

\* ---- WorkerRegistry handlers ----
\* handleRegister without the onWorkerConnected call at its end
handleRegister_NoCallback(c, conn, msg) ==
  IF msg.text # SECRET
  THEN [c EXCEPT !.connState[conn] = "closed", !.ret = "false"]
  ELSE
    LET workerId == msg.workerId
        workerInfo == [id |-> workerId, status |-> Online, currentTaskId |-> NoTask,
                     lastHeartbeat |-> c.now]
        c1 == [c EXCEPT !.workers = MapSet(@, workerInfo),
                        !.connections = [w \in DOMAIN @ \cup {workerId} |->
                                           IF w = workerId THEN conn ELSE @[w]]]
    IN [startHeartbeatMonitor(c1, workerId) EXCEPT !.ret = "true"]

handleRegister_NoSecretTest(c, conn, msg) ==
  LET workerId == msg.workerId
      workerInfo == [id |-> workerId, status |-> Online, currentTaskId |-> NoTask,
                     lastHeartbeat |-> c.now]
      c1 == [c EXCEPT !.workers = MapSet(@, workerInfo),
                      !.connections = [w \in DOMAIN @ \cup {workerId} |->
                                         IF w = workerId THEN conn ELSE @[w]]]
      c2 == startHeartbeatMonitor(c1, workerId)
  IN [onWorkerConnected(c2, workerId) EXCEPT !.ret = "true"]

\* ret is the success field of the worker:register_ack sent back, which is also
\* the return value; the ack frame itself is handed to the client in the same step
handleRegister(c, conn, msg) ==
  IF msg.text # SECRET
  THEN [c EXCEPT !.connState[conn] = "closed", !.ret = "false"]
  ELSE
    LET workerId == msg.workerId
        workerInfo == [id |-> workerId, status |-> Online, currentTaskId |-> NoTask,
                     lastHeartbeat |-> c.now]
        c1 == [c EXCEPT !.workers = MapSet(@, workerInfo),
                        !.connections = [w \in DOMAIN @ \cup {workerId} |->
                                           IF w = workerId THEN conn ELSE @[w]]]
        c2 == startHeartbeatMonitor(c1, workerId)
    IN [onWorkerConnected(c2, workerId) EXCEPT !.ret = "true"]

\* the heartbeat ack is not modelled: the worker ignores it (ws/client.ts, handleMessage)
handleHeartbeat(c, workerId, msg) ==
  IF ~HasWorker(c.workers, workerId) THEN c
  ELSE LET c1 == [c EXCEPT !.workers[WorkerIndex(c.workers, workerId)].lastHeartbeat = c.now]
       IN startHeartbeatMonitor(setWorkerCurrentTask(c1, workerId, msg.currentTaskId), workerId)

handleDisconnect(c, workerId) ==
  IF ~HasWorker(c.workers, workerId) THEN c
  ELSE
    LET hadRunningTask == GetWorker(c.workers, workerId).currentTaskId # NoTask
        c1 == [c EXCEPT !.heartbeatTimers = [w \in DOMAIN @ \ {workerId} |-> @[w]],
                        !.connections = [w \in DOMAIN @ \ {workerId} |-> @[w]],
                        !.workers = MapDelete(@, workerId)]
    IN onWorkerDisconnected(c1, workerId, hadRunningTask)

\* ---- WsServer ----
routeMessage(c, workerId, msg, elapsed) ==
  CASE msg.type = "worker:heartbeat" -> handleHeartbeat(c, workerId, msg)
    [] msg.type = "task:stream" ->
         IF msg.taskId # NoTask THEN handleStreamUpdate(c, msg.taskId, msg, elapsed) ELSE c
    [] msg.type = "task:complete" ->
         IF msg.taskId # NoTask THEN handleTaskComplete(c, msg.taskId, msg) ELSE c
    [] msg.type = "task:error" ->
         IF msg.taskId # NoTask THEN handleTaskError(c, msg.taskId, msg) ELSE c
    [] OTHER -> c

\* the listener without the test of `authenticated`: every frame is routed
\* under the worker name it carries
onMessage_NoAuthTest(c, conn, workerId, msg, intervalPassed) ==
  IF msg.type = "worker:register" THEN handleRegister(c, conn, msg)
  ELSE routeMessage(c, IF workerId = NULL THEN msg.workerId ELSE workerId, msg, intervalPassed)

\* the "message" listener of handleConnection, for one received frame
onMessage(c, conn, workerId, msg, intervalPassed) ==
  IF workerId = NULL
  THEN IF msg.type = "worker:register"
       THEN handleRegister(c, conn, msg)
       ELSE [c EXCEPT !.connState[conn] = "closed"]
  ELSE routeMessage(c, workerId, msg, intervalPassed)

\* the "close" listener of handleConnection
onClose(c, conn, workerId) ==
  LET c1 == [c EXCEPT !.connState[conn] = "closed"] IN
  IF workerId # NULL THEN handleDisconnect(c1, workerId) ELSE c1

\* ---- WsClient of the worker: connect, register, reconnect ----

\* ws: the socket ("connecting", "open", "closing" once shutdown() has called
\* close() on it, or "none" after its close event);
\* _registered, _shutdown, reconnectAttempts: WsClient fields; reconnectTimer: the delay
\* of the armed reconnect timer in ms, 0 without one; closes: transport closes
\* since the start or the last successful registration.
\* app.start() has called connect().
NewWsClient ==
  [ws |-> "connecting", _registered |-> FALSE, _shutdown |-> FALSE, reconnectAttempts |-> 0,
   reconnectTimer |-> 0, closes |-> 0]

RECURSIVE Pow2(_)
Pow2(n) == IF n = 0 THEN 1 ELSE 2 * Pow2(n - 1)

Min(a, b) == IF a <= b THEN a ELSE b

\* values of Math.random(), in thousandths
RandomSamples == {0, 250, 500, 750, 999}

\* scheduleReconnect: the delay it passes to setTimeout, for Math.random() = random / 1000.
\* jitter = delay * 0.2 * (random * 2 - 1); Math.round(x) is floor(x + 0.5)
actualDelay(reconnectAttempts, random) ==
  LET delay == Min(WS_RECONNECT_BASE_MS * Pow2(reconnectAttempts), WS_RECONNECT_MAX_MS)
  IN (2 * delay * (4000 + 2 * random) + 5000) \div 10000

\* the "close" listener without its test of _shutdown
onSocketClose_NoShutdownTest(w, random) ==
  [w EXCEPT !.ws = "none", !._registered = FALSE,
            !.reconnectTimer = actualDelay(w.reconnectAttempts, random),
            !.closes = @ + 1]

\* the "close" listener of connect: cleanup(), and scheduleReconnect() unless shut down
onSocketClose(w, random) ==
  [w EXCEPT !.ws = "none", !._registered = FALSE,
            !.reconnectTimer = IF w._shutdown THEN 0
                               ELSE actualDelay(w.reconnectAttempts, random),
            !.closes = @ + 1]

\* WsClient.connect
connect(w) == IF w._shutdown THEN w ELSE [w EXCEPT !.ws = "connecting"]

OnlyWsClient == UNCHANGED <<coordVars, srvVars, toWorker, wConn, wTask, wTokens>>

\* the "open" listener of connect
SocketOpens ==
  /\ wApp.wsClient.ws = "connecting"
  /\ wApp' = [wApp EXCEPT !.wsClient.ws = "open", !.wsClient.reconnectAttempts = 0]
  /\ OnlyWsClient

\* handleMessage for worker:register_ack with success
RegisterAck ==
  /\ wApp.wsClient.ws = "open"
  /\ ~wApp.wsClient._registered
  /\ wApp' = [wApp EXCEPT !.wsClient._registered = TRUE, !.wsClient.closes = 0]
  /\ OnlyWsClient

\* the socket closes: the connection attempt failed, the coordinator rejected
\* the registration and closed, or an established connection was lost
SocketCloses(random) ==
  /\ wApp.wsClient.ws \in {"connecting", "open", "closing"}
  /\ wApp.wsClient.closes < MaxCloses
  /\ wApp' = [wApp EXCEPT !.wsClient = onSocketClose(@, random)]
  /\ OnlyWsClient

\* the callback of the timer armed by scheduleReconnect
ReconnectTimer ==
  /\ wApp.wsClient.reconnectTimer # 0
  /\ wApp' = [wApp EXCEPT !.wsClient = connect([@ EXCEPT !.reconnectTimer = 0,
                                                         !.reconnectAttempts = @ + 1])]
  /\ OnlyWsClient

\* WsClient.shutdown: cleanup() and close() on the socket
ClientShutdown ==
  /\ ~wApp.wsClient._shutdown
  /\ wApp' = [wApp EXCEPT !.wsClient._shutdown = TRUE,
                          !.wsClient._registered = FALSE,
                          !.wsClient.reconnectTimer = 0,
                          !.wsClient.ws = IF @ \in {"connecting", "open"} THEN "closing" ELSE @]
  /\ OnlyWsClient

WsClientNext ==
  \/ SocketOpens
  \/ RegisterAck
  \/ \E random \in RandomSamples : SocketCloses(random)
  \/ ReconnectTimer
  \/ ClientShutdown

\* ---- StreamJsonParser ----

\* the characters of the CLI's stdout: two that make up records, blank, newline
Chars == {"r", "a", " ", "\n"}

\* the texts of at most n characters
RECURSIVE TextsUpTo(_)
TextsUpTo(n) ==
  IF n = 0 THEN {<<>>}
  ELSE LET shorter == TextsUpTo(n - 1)
       IN shorter \cup {Append(t, ch) : t \in {u \in shorter : Len(u) = n - 1}, ch \in Chars}

\* String.prototype.split("\n"): the pieces between the newlines, at least one
RECURSIVE SplitLines(_)
SplitLines(text) ==
  LET newlines == {i \in DOMAIN text : text[i] = "\n"} IN
  IF newlines = {} THEN <<text>>
  ELSE LET i == CHOOSE j \in newlines : \A k \in newlines : j <= k
       IN <<SubSeq(text, 1, i - 1)>> \o SplitLines(SubSeq(text, i + 1, Len(text)))

\* String.prototype.trim
RECURSIVE Trim(_)
Trim(line) ==
  IF line = <<>> THEN line
  ELSE IF Head(line) = " " THEN Trim(Tail(line))
  ELSE IF line[Len(line)] = " " THEN Trim(SubSeq(line, 1, Len(line) - 1))
  ELSE line

\* JSON.parse and classifyEvent for one trimmed line: "rr" stands for a
\* well-formed result record, "aa" for a well-formed assistant record, and
\* every other line is malformed (JSON.parse throws, the line is skipped)
classifyLine(trimmed) ==
  IF trimmed = <<"r", "r">> THEN <<"result">>
  ELSE IF trimmed = <<"a", "a">> THEN <<"assistant_message">>
  ELSE <<>>

RECURSIVE EventsOfLines(_)
EventsOfLines(lines) ==
  IF lines = <<>> THEN <<>>
  ELSE LET trimmed == Trim(Head(lines))
       IN (IF trimmed = <<>> THEN <<>> ELSE classifyLine(trimmed)) \o EventsOfLines(Tail(lines))

\* parse without the buffer: the piece after the last newline is treated as a line
parse_NoBuffer(buffer, chunk) ==
  [buffer |-> <<>>, events |-> EventsOfLines(SplitLines(buffer \o chunk))]

\* StreamJsonParser.parse(chunk) with this.buffer = buffer: the new buffer and
\* the events returned
parse(buffer, chunk) ==
  LET lines == SplitLines(buffer \o chunk)
  IN [buffer |-> lines[Len(lines)],
      events |-> EventsOfLines(SubSeq(lines, 1, Len(lines) - 1))]

\* stdout: what the CLI writes in all; fed: how much of it has been handed to
\* parse(), in `chunks` calls; buffer: StreamJsonParser.buffer; events: the
\* events returned so far
NewParser == [stdout |-> <<>>, fed |-> 0, chunks |-> 0, buffer |-> <<>>, events |-> <<>>]

\* ---- WorkerApp and ClaudeExecutor, for one worker taken alone ----

\* currentTaskId, taskTimeoutTimer (the task of the armed timer): WorkerApp fields;
\* running: ClaudeExecutor._running; process: the CLI child process ("none",
\* "alive", or "exited": its "exit" event was emitted, its "close" event not yet);
\* exit: how the process ended; signal: the last signal sent to it by kill();
\* killWait: the task whose timeout callback is suspended in await executor.kill();
\* assigned: number of task:assign frames received; tmpDirs: the tasks whose
\* directory under claude-worker-files exists; timedOut: the tasks whose timer
\* expired while the CLI was running; sent: the task:complete and task:error
\* frames handed to wsClient.send; wsClient: the WsClient of the WorkerApp
NewWorkerApp ==
  [currentTaskId |-> NoTask, taskTimeoutTimer |-> NoTask, running |-> FALSE,
   process |-> "none", exit |-> "none", signal |-> "none", killWait |-> NoTask,
   assigned |-> 0, tmpDirs |-> {}, timedOut |-> {}, sent |-> <<>>,
   wsClient |-> NewWsClient, parser |-> NewParser]

wsClientSend(a, type, code, taskId) ==
  [a EXCEPT !.sent = Append(@, [type |-> type, code |-> code, taskId |-> taskId])]

cleanupTempFiles(a, taskId) == [a EXCEPT !.tmpDirs = @ \ {taskId}]

\* WorkerApp.clearTaskTimeout
clearWorkerTaskTimeout(a) == [a EXCEPT !.taskTimeoutTimer = NoTask]

\* handleProcessExit(code, signal); exit is "0", "1" or the name of the signal
handleProcessExit(a, exit) ==
  LET a1 == clearWorkerTaskTimeout(a)
      taskId == a1.currentTaskId
  IN IF taskId = NoTask THEN a1
     ELSE LET a2 == IF exit = "0" THEN wsClientSend(a1, "task:complete", "", taskId)
                    ELSE wsClientSend(a1, "task:error", "EXIT_" \o exit, taskId)
          IN [cleanupTempFiles(a2, taskId) EXCEPT !.currentTaskId = NoTask]

handleProcessError(a) ==
  LET a1 == clearWorkerTaskTimeout(a)
      taskId == a1.currentTaskId
  IN IF taskId = NoTask THEN a1
     ELSE [cleanupTempFiles(wsClientSend(a1, "task:error", "SPAWN_ERROR", taskId), taskId)
             EXCEPT !.currentTaskId = NoTask]

\* the "close" listener of the child process in ClaudeExecutor.execute
onProcessClose(a) ==
  handleProcessExit([a EXCEPT !.running = FALSE, !.process = "none"], a.exit)

\* the callback of startTaskTimeout after its await, without the second test
\* of currentTaskId
afterKill_NoCurrentTest(a) ==
  LET taskId == a.killWait
      a1 == [a EXCEPT !.killWait = NoTask]
  IN IF taskId = NoTask THEN a1
     ELSE [wsClientSend(a1, "task:error", "TIMEOUT", taskId) EXCEPT !.currentTaskId = NoTask]

\* the callback of startTaskTimeout after its await executor.kill()
afterKill(a) ==
  LET taskId == a.killWait
      a1 == [a EXCEPT !.killWait = NoTask]
  IN IF taskId = NoTask THEN a1
     ELSE IF a1.currentTaskId = taskId
     THEN [wsClientSend(a1, "task:error", "TIMEOUT", taskId) EXCEPT !.currentTaskId = NoTask]
     ELSE a1

\* everything but the WorkerApp stays as it is
OnlyWorkerApp == UNCHANGED <<coordVars, srvVars, toWorker, wConn, wTask, wTokens>>

\* handleFileTransfer for an attachment of the task that is assigned next
FileTransfer ==
  /\ wApp.assigned < MaxAssignments
  /\ wApp' = [wApp EXCEPT !.tmpDirs = @ \cup {wApp.assigned + 1}]
  /\ OnlyWorkerApp

\* handleTaskAssign; allowed: the cwd is under ALLOWED_DIRS; spawned: execute()
\* got a child process (the cwd exists and spawn did not throw)
TaskAssign(allowed, spawned) ==
  /\ wApp.assigned < MaxAssignments
  /\ LET taskId == wApp.assigned + 1
         a0 == [wApp EXCEPT !.assigned = taskId]
     IN wApp' =
          IF a0.running THEN a0
          ELSE IF ~allowed
          THEN wsClientSend(a0, "task:error", "DIRECTORY_NOT_ALLOWED", taskId)
          ELSE LET a1 == [a0 EXCEPT !.currentTaskId = taskId, !.taskTimeoutTimer = taskId]
               IN IF spawned
                  THEN [a1 EXCEPT !.running = TRUE, !.process = "alive",
                                  !.exit = "none", !.signal = "none"]
                  ELSE handleProcessError(a1)
  /\ OnlyWorkerApp

\* handleTaskCancel: kill() sends SIGTERM; nothing follows its await
TaskCancel ==
  /\ wApp.running
  /\ wApp.process = "alive"
  /\ wApp.signal = "none"
  /\ wApp' = [wApp EXCEPT !.signal = "SIGTERM"]
  /\ OnlyWorkerApp

\* the callback of startTaskTimeout up to its await: kill() sends SIGTERM and
\* waits for the "exit" event of the process or for 5 seconds
TaskTimerExpires ==
  /\ wApp.taskTimeoutTimer # NoTask
  /\ LET taskId == wApp.taskTimeoutTimer
         a1 == [wApp EXCEPT !.taskTimeoutTimer = NoTask]
     IN wApp' =
          IF a1.currentTaskId = taskId /\ a1.running
          THEN [a1 EXCEPT !.killWait = taskId,
                          !.signal = IF a1.process = "alive" THEN "SIGTERM" ELSE @,
                          !.timedOut = IF a1.process = "alive" THEN @ \cup {taskId} ELSE @]
          ELSE a1
  /\ OnlyWorkerApp

\* the 5 seconds of kill() pass: SIGKILL, and the awaiting callback resumes
KillGraceExpires ==
  /\ wApp.killWait # NoTask
  /\ wApp.process # "none"
  /\ wApp' = afterKill([wApp EXCEPT !.signal = IF wApp.process = "alive" THEN "SIGKILL" ELSE @])
  /\ OnlyWorkerApp

\* how a process that was sent `signal` may end
ExitsAfter(signal) == {"0", "1"} \cup (IF signal = "none" THEN {} ELSE {signal})

\* the child process ends and emits "exit", which resumes a callback waiting
\* in kill().  If its stdio streams are closed by then, "close" is emitted in
\* the same turn, before the resumed callback runs; else "close" comes later.
ProcessExit(exit, closesInSameTurn) ==
  /\ wApp.process = "alive"
  /\ exit \in ExitsAfter(wApp.signal)
  /\ LET a1 == [wApp EXCEPT !.process = "exited", !.exit = exit]
     IN wApp' = IF closesInSameTurn THEN afterKill(onProcessClose(a1)) ELSE afterKill(a1)
  /\ OnlyWorkerApp

\* the stdio streams of the ended process have closed: "close" is emitted
ProcessClose ==
  /\ wApp.process = "exited"
  /\ wApp' = onProcessClose(wApp)
  /\ OnlyWorkerApp

\* the "error" listener of the child process: the CLI could not be started
ProcessError ==
  /\ wApp.process = "alive"
  /\ wApp.signal = "none"
  /\ wApp' = afterKill(handleProcessError([wApp EXCEPT !.running = FALSE, !.process = "none"]))
  /\ OnlyWorkerApp

WorkerAppNext ==
  \/ FileTransfer
  \/ \E allowed \in BOOLEAN, spawned \in BOOLEAN : TaskAssign(allowed, spawned)
  \/ TaskCancel
  \/ TaskTimerExpires
  \/ KillGraceExpires
  \/ \E exit \in {"0", "1", "SIGTERM", "SIGKILL"}, closesInSameTurn \in BOOLEAN :
        ProcessExit(exit, closesInSameTurn)
  \/ ProcessClose
  \/ ProcessError

\* ---- initial state: a freshly started coordinator, worker processes not yet connected ----
InitButWorkerApp ==
  /\ tasks = <<>>
  /\ taskIdCounter = 0
  /\ timeoutTimers = {}
  /\ updateTimers = <<>>
  /\ lastUpdateTime = <<>>
  /\ pendingDispatch = 0
  /\ failScans = {}
  /\ queue = <<>>
  /\ workers = <<>>
  /\ connections = <<>>
  /\ heartbeatTimers = <<>>
  /\ now = 0
  /\ roundRobinIndex = 0
  /\ connState = [c \in ConnIds |-> "none"]
  /\ connWorkerId = [c \in ConnIds |-> NULL]
  /\ toWorker = [c \in ConnIds |-> <<>>]
  /\ wConn = [n \in WorkerNames |-> NoConn]
  /\ wTask = [n \in WorkerNames |-> NoTask]
  /\ wTokens = [n \in WorkerNames |-> ZeroTokens]

Init ==
  /\ InitButWorkerApp
  /\ wApp = NewWorkerApp

\* ---- coordinator actions ----

\* what CommandHandler.handleTask passes to createTask, as far as dispatch is concerned
TaskCreateOptions == [workerId : WorkerNames \cup {NULL}]

\* CommandHandler.handleTask / ScheduleManager: createTask(), then awaits, then dispatchNext()
CreateTask ==
  /\ taskIdCounter < MaxTasks
  /\ \E options \in TaskCreateOptions : Commit(AwaitThenDispatch(createTask(Ctx, options)))
  /\ UNCHANGED <<connWorkerId, workerVars>>

\* a suspended handler resumes and runs its trailing dispatchNext()
ResumeDispatch ==
  /\ pendingDispatch > 0
  /\ Commit(dispatchNext([Ctx EXCEPT !.pendingDispatch = @ - 1]))
  /\ UNCHANGED <<connWorkerId, workerVars>>

CancelTask(taskId) ==
  /\ taskId \in DOMAIN tasks
  /\ Commit(cancelTask(Ctx, taskId, USER_REASON))
  /\ UNCHANGED <<connWorkerId, workerVars>>

\* the timer armed by setTaskTimeout expires
TaskTimeout(taskId) ==
  /\ taskId \in timeoutTimers
  /\ Commit(cancelTask(Ctx, taskId, TIMEOUT_REASON))
  /\ UNCHANGED <<connWorkerId, workerVars>>

ThrottleTimer(taskId) ==
  /\ taskId \in DOMAIN updateTimers
  /\ Commit(throttleTimerFired(Ctx, taskId))
  /\ UNCHANGED <<connWorkerId, workerVars>>

\* the loop of handleWorkerDisconnect resumes after await onTaskFailed
ResumeWorkerDisconnect(scan) ==
  /\ scan \in failScans
  /\ Commit(failRunningTasksFrom([Ctx EXCEPT !.failScans = @ \ {scan}], scan.workerId, scan.next))
  /\ UNCHANGED <<connWorkerId, workerVars>>

\* the watchdog armed by startHeartbeatMonitor expires.  Spec does not let
\* time pass (now stays 0) and lets an armed timer expire at any moment;
\* TimedSpec lets it expire when it is due.
HeartbeatTimeout(workerId) ==
  /\ workerId \in DOMAIN heartbeatTimers
  /\ Commit(handleDisconnect(Ctx, workerId))
  /\ UNCHANGED <<connWorkerId, workerVars>>

\* the server observes that the socket of a connection has closed
ServerClose(conn) ==
  /\ connState[conn] = "open"
  /\ Commit(onClose(Ctx, conn, connWorkerId[conn]))
  /\ UNCHANGED <<connWorkerId, workerVars>>

\* ---- worker actions ----

\* WsClient.send on the worker's socket; the frame is dropped unless the socket
\* is open, and otherwise handled by the server's "message" listener
ClientSend(n, msg) ==
  IF wConn[n] # NoConn /\ connState[wConn[n]] = "open"
  THEN \E intervalPassed \in BOOLEAN :
         /\ Commit(onMessage(Ctx, wConn[n], connWorkerId[wConn[n]], msg, intervalPassed))
         /\ UNCHANGED connWorkerId
  ELSE UNCHANGED <<coordVars, srvVars, toWorker>>

\* the same, by a handler that has just taken a frame off its inbound channel
ClientSendAfter(n, rest, msg) ==
  IF wConn[n] # NoConn /\ connState[wConn[n]] = "open"
  THEN \E intervalPassed \in BOOLEAN :
         /\ Commit(onMessage([Ctx EXCEPT !.toWorker = rest], wConn[n], connWorkerId[wConn[n]],
                             msg, intervalPassed))
         /\ UNCHANGED connWorkerId
  ELSE /\ toWorker' = rest
       /\ UNCHANGED <<coordVars, srvVars>>

\* WsClient.connect, the "open" listener (sendRegister) and the server's
\* "message" listener for the worker:register frame.
\* Worker names are interchangeable (the registry keys its maps by name and
\* orders workers by insertion), so of two runs that differ only by swapping
\* the names one is kept: the first connection ever opened is opened by "w1".
WorkerConnect(n, secret) ==
  /\ wConn[n] = NoConn
  /\ (n = "w2" => connState[1] # "none")
  /\ \E conn \in ConnIds :
       /\ connState[conn] = "none"
       /\ \A d \in ConnIds : connState[d] = "none" => conn <= d
       /\ LET msg == createMessage("worker:register", secret, NoTask, n, NoTask)
              c == onMessage([Ctx EXCEPT !.connState[conn] = "open"], conn, NULL, msg, TRUE)
          IN /\ Commit(c)
             /\ connWorkerId' = IF c.ret = "true" THEN [connWorkerId EXCEPT ![conn] = n]
                                ELSE connWorkerId
             /\ wConn' = IF c.ret = "true" THEN [wConn EXCEPT ![n] = conn] ELSE wConn
  /\ UNCHANGED <<wTask, wTokens, wApp>>

\* frames that a client which has not registered may send, under a worker's name
UnauthenticatedFrames ==
  {createMessage("worker:heartbeat", "", NoTask, n, NoTask) : n \in WorkerNames}
  \cup {createMessage(type, "", 1, "w1", NoTask) : type \in {"task:stream", "task:complete", "task:error"}}

\* some client opens a connection and sends a frame other than worker:register
\* first: handleConnection and its "message" listener, with authenticated false
UnauthenticatedSend(msg) ==
  /\ \E conn \in ConnIds :
       /\ connState[conn] = "none"
       /\ \A d \in ConnIds : connState[d] = "none" => conn <= d
       /\ Commit(onMessage([Ctx EXCEPT !.connState[conn] = "open"], conn, NULL, msg, TRUE))
  /\ UNCHANGED <<connWorkerId, workerVars>>

\* the client's "close" listener: cleanup(); a reconnect follows by WorkerConnect.
\* Frames still in flight to this client are lost.
ClientClose(n) ==
  /\ wConn[n] # NoConn
  /\ wConn' = [wConn EXCEPT ![n] = NoConn]
  /\ toWorker' = [toWorker EXCEPT ![wConn[n]] = <<>>]
  /\ UNCHANGED <<coordVars, srvVars, wTask, wTokens, wApp>>

\* ClaudeExecutor.running: a CLI process exists from handleTaskAssign to its exit
wRunning(n) == wTask[n] # NoTask

\* WorkerApp.handleWsMessage for one received frame
WorkerReceive(n) ==
  /\ wConn[n] # NoConn
  /\ toWorker[wConn[n]] # <<>>
  /\ LET msg == Head(toWorker[wConn[n]])
         rest == [toWorker EXCEPT ![wConn[n]] = Tail(@)]
     IN CASE msg.type = "task:assign" ->
               \* handleTaskAssign
               IF wRunning(n)
               THEN /\ toWorker' = rest
                    /\ UNCHANGED <<coordVars, srvVars, wTask, wTokens>>
               ELSE \E outcome \in {"started", "DIRECTORY_NOT_ALLOWED"} :
                      IF outcome = "started"
                      THEN /\ wTask' = [wTask EXCEPT ![n] = msg.taskId]
                           /\ wTokens' = [wTokens EXCEPT ![n] = ZeroTokens]
                           /\ toWorker' = rest
                           /\ UNCHANGED <<coordVars, srvVars>>
                      ELSE /\ ClientSendAfter(n, rest,
                                createMessage("task:error", outcome, msg.taskId, n, NoTask)
                                  @@ [tokenUsage |-> ZeroTokens])
                           /\ UNCHANGED <<wTask, wTokens>>
          [] OTHER ->
               \* task:cancel: executor.kill(); the exit is observed by WorkerProcessExit
               /\ toWorker' = rest
               /\ UNCHANGED <<coordVars, srvVars, wTask, wTokens>>
  /\ UNCHANGED <<wConn, wApp>>

\* the heartbeat interval started on registration ticks: sendHeartbeat
WorkerHeartbeat(n) ==
  /\ wConn[n] # NoConn
  /\ ClientSend(n, createMessage("worker:heartbeat", "", NoTask, n, wTask[n]))
  /\ UNCHANGED workerVars

\* the amount of CLI output relayed for a task so far
StreamedSoFar(taskId) ==
  IF tasks[taskId].resultText = NullText THEN 0 ELSE Len(tasks[taskId].resultText)

\* the CLI emits a record: handleStreamEvent.  Only text output is counted
\* against MaxStream; the other records leave no growing trace in the model.
WorkerStream(n, eventType) ==
  /\ wRunning(n)
  /\ eventType = "assistant_message" => StreamedSoFar(wTask[n]) < MaxStream
  /\ ClientSend(n, createMessage("task:stream", eventType, wTask[n], n, NoTask)
                     @@ [toolName |-> "Read", summary |-> "end", success |-> TRUE])
  /\ UNCHANGED workerVars

\* the CLI starts or ends the use of a tool: handleStreamEvent for a
\* tool_use_begin or tool_use_end record
WorkerToolEvent(n, eventType, toolName, success) ==
  /\ wRunning(n)
  /\ eventType = "tool_use_begin" =>
       wTask[n] \in DOMAIN tasks /\ Len(tasks[wTask[n]].toolHistory) < MaxToolHistory
  /\ ClientSend(n, createMessage("task:stream", eventType, wTask[n], n, NoTask)
                     @@ [toolName |-> toolName,
                         summary |-> IF eventType = "tool_use_begin" THEN "begin" ELSE "end",
                         success |-> success])
  /\ UNCHANGED workerVars

\* token counts that one CLI record may carry
UsageSamples ==
  {[inputTokens |-> 2, outputTokens |-> 1, cacheReadTokens |-> 1, cacheWriteTokens |-> 0],
   [inputTokens |-> 1, outputTokens |-> 1, cacheReadTokens |-> 0, cacheWriteTokens |-> 1]}

AddTokens(a, b) ==
  [inputTokens |-> a.inputTokens + b.inputTokens,
   outputTokens |-> a.outputTokens + b.outputTokens,
   cacheReadTokens |-> a.cacheReadTokens + b.cacheReadTokens,
   cacheWriteTokens |-> a.cacheWriteTokens + b.cacheWriteTokens]

\* the CLI reports token usage: handleStreamEvent for a token_usage record.
\* The repository holds two versions of this method: one sends the
\* accumulated counters as the frame's data, the other the record's own data.
WorkerTokenUsage(n, usage, sendsAccumulated) ==
  /\ wRunning(n)
  /\ wTokens[n].inputTokens + usage.inputTokens <= MaxTokens
  /\ LET accumulated == AddTokens(wTokens[n], usage) IN
       /\ wTokens' = [wTokens EXCEPT ![n] = accumulated]
       /\ ClientSend(n, createMessage("task:stream", "token_usage", wTask[n], n, NoTask)
                          @@ [tokenUsage |-> IF sendsAccumulated THEN accumulated ELSE usage])
  /\ UNCHANGED <<wConn, wTask, wApp>>

\* the CLI process ends: executor "close" listener and handleProcessExit
WorkerProcessExit(n, success) ==
  /\ wRunning(n)
  /\ ClientSend(n, (IF success
                    THEN createMessage("task:complete", "", wTask[n], n, NoTask)
                    ELSE createMessage("task:error", "EXIT_1", wTask[n], n, NoTask))
                   @@ [tokenUsage |-> wTokens[n]])
  /\ wTask' = [wTask EXCEPT ![n] = NoTask]
  /\ UNCHANGED <<wConn, wTokens, wApp>>

Next ==
  \/ CreateTask
  \/ ResumeDispatch
  \/ \E taskId \in TaskIds : CancelTask(taskId)
  \/ \E taskId \in TaskIds : TaskTimeout(taskId)
  \/ \E taskId \in TaskIds : ThrottleTimer(taskId)
  \/ \E scan \in failScans : ResumeWorkerDisconnect(scan)
  \/ \E workerId \in WorkerNames : HeartbeatTimeout(workerId)
  \/ \E conn \in ConnIds : ServerClose(conn)
  \/ \E n \in WorkerNames, secret \in {SECRET, "wrong"} : WorkerConnect(n, secret)
  \/ \E msg \in UnauthenticatedFrames : UnauthenticatedSend(msg)
  \/ \E n \in WorkerNames : ClientClose(n)
  \/ \E n \in WorkerNames : WorkerReceive(n)
  \/ \E n \in WorkerNames : WorkerHeartbeat(n)
  \/ \E n \in WorkerNames, eventType \in {"assistant_message", "tool_use_end"} : WorkerStream(n, eventType)
  \/ \E n \in WorkerNames, success \in BOOLEAN : WorkerProcessExit(n, success)

Spec == Init /\ [][Next]_vars

\* ---- the coordinator alone, with enough task creations to fill the queue ----

\* CommandHandler.handleTask as in CreateTask, for task ids up to MaxQueueTasks
CreateQueuedTask ==
  /\ taskIdCounter < MaxQueueTasks
  /\ \E options \in TaskCreateOptions : Commit(AwaitThenDispatch(createTask(Ctx, options)))
  /\ UNCHANGED <<connWorkerId, workerVars>>

QueueNext ==
  \/ CreateQueuedTask
  \/ ResumeDispatch
  \/ \E taskId \in TaskIds : CancelTask(taskId)

QueueSpec == Init /\ [][QueueNext]_vars

\* ---- one worker whose CLI uses tools ----

ToolNext ==
  \/ CreateTask
  \/ ResumeDispatch
  \/ \E taskId \in TaskIds : ThrottleTimer(taskId)
  \/ WorkerConnect("w1", SECRET)
  \/ WorkerReceive("w1")
  \/ \E eventType \in {"tool_use_begin", "tool_use_end"}, toolName \in ToolNames,
        success \in BOOLEAN : WorkerToolEvent("w1", eventType, toolName, success)

ToolSpec == Init /\ [][ToolNext]_vars

\* ---- one worker whose CLI reports token usage ----

TokenNext ==
  \/ CreateTask
  \/ ResumeDispatch
  \/ \E taskId \in TaskIds : ThrottleTimer(taskId)
  \/ WorkerConnect("w1", SECRET)
  \/ WorkerReceive("w1")
  \/ \E usage \in UsageSamples, sendsAccumulated \in BOOLEAN :
        WorkerTokenUsage("w1", usage, sendsAccumulated)
  \/ \E success \in BOOLEAN : WorkerProcessExit("w1", success)

TokenSpec == Init /\ [][TokenNext]_vars

\* ---- one worker and the update throttle with a clock ----

\* the moment the next trailing update is due
NextUpdateDue ==
  IF DOMAIN updateTimers = {} THEN MaxThrottleTime
  ELSE CHOOSE d \in {updateTimers[t] : t \in DOMAIN updateTimers} :
         \A t \in DOMAIN updateTimers : d <= updateTimers[t]

\* time passes, by at most ThrottleTickMs and not beyond the moment the next
\* trailing update is due
ThrottleTick ==
  /\ now < MaxThrottleTime
  /\ now < NextUpdateDue
  /\ now' = IF now + ThrottleTickMs <= NextUpdateDue /\ now + ThrottleTickMs <= MaxThrottleTime
            THEN now + ThrottleTickMs
            ELSE IF NextUpdateDue <= MaxThrottleTime THEN NextUpdateDue ELSE MaxThrottleTime
  /\ UNCHANGED <<tasks, taskIdCounter, timeoutTimers, updateTimers, lastUpdateTime,
                 pendingDispatch, failScans, queue, workers, connections, heartbeatTimers,
                 roundRobinIndex, srvVars, toWorker, workerVars>>

\* the setTimeout callback of throttledUpdate, run when the delay has elapsed
TrailingUpdate(taskId) ==
  /\ taskId \in DOMAIN updateTimers
  /\ updateTimers[taskId] <= now
  /\ ThrottleTimer(taskId)

\* the worker relays a CLI record and the coordinator handles the frame at
\* the current time: throttledUpdate computes elapsed from Date.now()
WorkerStreamNow(n) ==
  /\ wRunning(n)
  /\ wConn[n] # NoConn /\ connState[wConn[n]] = "open"
  /\ LET taskId == wTask[n]
         elapsed == IF taskId \in DOMAIN lastUpdateTime THEN now - lastUpdateTime[taskId] ELSE now
     IN Commit(onMessage(Ctx, wConn[n], connWorkerId[wConn[n]],
                         createMessage("task:stream", "system_message", taskId, n, NoTask),
                         elapsed >= DISCORD_STATUS_UPDATE_INTERVAL_MS))
  /\ UNCHANGED <<connWorkerId, workerVars>>

ThrottleNext ==
  \/ ThrottleTick
  \/ \E taskId \in TaskIds : TrailingUpdate(taskId)
  \/ CreateTask
  \/ ResumeDispatch
  \/ WorkerConnect("w1", SECRET)
  \/ WorkerReceive("w1")
  \/ WorkerStreamNow("w1")
  \/ \E success \in BOOLEAN : WorkerProcessExit("w1", success)

ThrottleSpec == Init /\ [][ThrottleNext]_vars

\* ---- the whole system, where an armed task-timeout timer does expire ----

\* no user cancels a task, so that a task is Cancelled only by its timer, and
\* no socket closes, so that no worker is removed from the registry
TimeoutNext ==
  \/ CreateTask
  \/ ResumeDispatch
  \/ \E taskId \in TaskIds : TaskTimeout(taskId)
  \/ \E taskId \in TaskIds : ThrottleTimer(taskId)
  \/ \E n \in WorkerNames : WorkerConnect(n, SECRET)
  \/ \E n \in WorkerNames : WorkerReceive(n)
  \/ \E n \in WorkerNames, eventType \in {"assistant_message", "tool_use_end"} : WorkerStream(n, eventType)
  \/ \E n \in WorkerNames, success \in BOOLEAN : WorkerProcessExit(n, success)

\* setTimeout: a timer that stays armed expires (after TASK_DEFAULT_TIMEOUT_MS)
\* and the event loop runs its callback
TimeoutSpec ==
  /\ Init
  /\ [][TimeoutNext]_vars
  /\ \A taskId \in TaskIds : WF_vars(TaskTimeout(taskId))

\* ---- the parser alone, fed the CLI's stdout in chunks ----

\* the CLI is about to write any text of at most MaxText characters
ParserInit ==
  /\ InitButWorkerApp
  /\ \E text \in TextsUpTo(MaxText) : wApp = [NewWorkerApp EXCEPT !.parser.stdout = text]

\* handleStdoutChunk: the next `size` characters of stdout arrive as one chunk
StdoutChunk(size) ==
  /\ wApp.parser.fed + size <= Len(wApp.parser.stdout)
  /\ LET p == wApp.parser
         chunk == SubSeq(p.stdout, p.fed + 1, p.fed + size)
         r == parse(p.buffer, chunk)
     IN wApp' = [wApp EXCEPT !.parser.fed = @ + size,
                             !.parser.chunks = @ + 1,
                             !.parser.buffer = r.buffer,
                             !.parser.events = @ \o r.events]
  /\ OnlyWorkerApp

ParserNext == \E size \in 1..MaxText : StdoutChunk(size)

ParserSpec == ParserInit /\ [][ParserNext]_vars

\* ---- the client of one worker taken alone ----

WsClientSpec == Init /\ [][WsClientNext]_vars

\* ---- one worker taken alone, with its CLI process ----

WorkerAppSpec == Init /\ [][WorkerAppNext]_vars

\* ---- the registry with a clock: heartbeat watchdogs expire when they are due ----

\* the earliest time at which an armed watchdog is due, MaxTime if none is armed
NextDue ==
  IF DOMAIN heartbeatTimers = {} THEN MaxTime
  ELSE CHOOSE d \in {heartbeatTimers[w] : w \in DOMAIN heartbeatTimers} :
         \A w \in DOMAIN heartbeatTimers : d <= heartbeatTimers[w]

\* time passes, by at most TickMs and not beyond the moment the next watchdog
\* is due: the event loop runs a timer callback when its delay has elapsed
Tick ==
  /\ now < MaxTime
  /\ now < NextDue
  /\ now' = IF now + TickMs <= NextDue /\ now + TickMs <= MaxTime THEN now + TickMs
            ELSE IF NextDue <= MaxTime THEN NextDue ELSE MaxTime
  /\ UNCHANGED <<tasks, taskIdCounter, timeoutTimers, updateTimers, lastUpdateTime,
                 pendingDispatch, failScans, queue, workers, connections, heartbeatTimers,
                 roundRobinIndex, srvVars, toWorker, workerVars>>

\* the setTimeout callback of startHeartbeatMonitor, run when the delay has elapsed
WatchdogExpires(workerId) ==
  /\ workerId \in DOMAIN heartbeatTimers
  /\ heartbeatTimers[workerId] <= now
  /\ HeartbeatTimeout(workerId)

TimedNext ==
  \/ Tick
  \/ \E workerId \in WorkerNames : WatchdogExpires(workerId)
  \/ \E n \in WorkerNames : WorkerConnect(n, SECRET)
  \/ \E n \in WorkerNames : WorkerHeartbeat(n)
  \/ \E n \in WorkerNames : ClientClose(n)
  \/ \E conn \in ConnIds : ServerClose(conn)

TimedSpec == Init /\ [][TimedNext]_vars

\* ---- properties ----

\* C1: once a task's status is Completed, Failed or Cancelled, no later step
\* (stream, complete, error, cancel, timeout, socket close, watchdog) changes it
C1_TerminalStatusIsFinal ==
  [][\A t \in DOMAIN tasks :
       tasks[t].status \in TerminalStatus => tasks'[t].status = tasks[t].status]_vars

\* a Cancelled task whose worker still runs it on an open, registered connection:
\* the worker's late task:stream / task:complete / task:error will be handled
C1_Witness ==
  \E t \in DOMAIN tasks, n \in WorkerNames :
    /\ tasks[t].status = Cancelled
    /\ wTask[n] = t
    /\ wConn[n] # NoConn /\ connState[wConn[n]] = "open" /\ connWorkerId[wConn[n]] = n

\* C2: every Running task has a non-null workerId naming a registered worker
\* whose currentTaskId is that task
C2_RunningTaskHeldByItsWorker ==
  \A t \in DOMAIN tasks :
    tasks[t].status = Running =>
      /\ tasks[t].workerId # NULL
      /\ HasWorker(workers, tasks[t].workerId)
      /\ GetWorker(workers, tasks[t].workerId).currentTaskId = t

\* C3: at most one Running task carries a given worker name as its workerId
C3_OneRunningTaskPerWorker ==
  \A t1, t2 \in DOMAIN tasks :
    (t1 # t2 /\ tasks[t1].status = Running /\ tasks[t2].status = Running)
      => tasks[t1].workerId # tasks[t2].workerId

\* C4: a registered worker is Busy exactly when its currentTaskId is non-null
C4_BusyIffCurrentTask ==
  \A i \in DOMAIN workers :
    (workers[i].status = Busy) <=> (workers[i].currentTaskId # NoTask)

\* C5: the step that removes worker w from the registry turns every task Running
\* with workerId w into Failed with the worker-disconnect message, and changes the
\* status of no Queued task and of no task assigned to another worker
C5_RemovalFailsItsRunningTask ==
  [][\A w \in WorkerNames :
       (HasWorker(workers, w) /\ ~HasWorker(workers', w)) =>
         \A t \in DOMAIN tasks :
           /\ (tasks[t].status = Running /\ tasks[t].workerId = w) =>
                /\ tasks'[t].status = Failed
                /\ tasks'[t].errorMessage = WORKER_DISCONNECT_MESSAGE
           /\ (tasks[t].status = Queued \/ tasks[t].workerId # w) =>
                tasks'[t].status = tasks[t].status]_vars

\* C6: every step that takes a task to a terminal status leaves one more
\* dispatchNext() call to come
C6_TerminalTransitionSchedulesDispatch ==
  [][(\E t \in DOMAIN tasks :
        tasks[t].status \notin TerminalStatus /\ tasks'[t].status \in TerminalStatus)
       => pendingDispatch' > pendingDispatch]_vars

\* C7: when tasks wait in the queue and no worker is Online, the step in which a
\* worker registers successfully moves the head of the queue to Running on that
\* worker and sends it the task:assign
C7_RegisterDispatchesHead ==
  [][\A w \in WorkerNames :
       (/\ queue # <<>>
        /\ Len(onlineWorkers(workers)) = 0
        /\ w \in DOMAIN connections'
        /\ (w \notin DOMAIN connections \/ connections'[w] # connections[w]))
       => /\ tasks'[Head(queue)].status = Running
          /\ tasks'[Head(queue)].workerId = w
          /\ queue' = Tail(queue)
          /\ toWorker'[connections'[w]] # <<>>
          /\ LET sent == toWorker'[connections'[w]][Len(toWorker'[connections'[w]])]
             IN sent.type = "task:assign" /\ sent.taskId = Head(queue)]_vars

\* one task was created and is Running although the dispatchNext() that follows
\* its creation has not run yet: it was dispatched by a worker's registration
C7_Witness ==
  /\ taskIdCounter = 1
  /\ pendingDispatch = 1
  /\ tasks[1].status = Running
  /\ \E n \in WorkerNames :
       /\ tasks[1].workerId = n
       /\ wConn[n] # NoConn
       /\ toWorker[wConn[n]] # <<>>
       /\ Head(toWorker[wConn[n]]).type = "task:assign"

\* C8: in the post-state of a step that takes a Running task assigned to w to a
\* terminal status by task:complete, task:error, cancellation or timeout, worker w,
\* if registered, is Online with currentTaskId null
C8_TerminalTransitionReleasesWorker ==
  [][\A t \in DOMAIN tasks :
       (/\ tasks[t].status = Running
        /\ tasks'[t].status \in TerminalStatus
        /\ tasks'[t].errorMessage # WORKER_DISCONNECT_MESSAGE
        /\ HasWorker(workers', tasks[t].workerId))
       => /\ GetWorker(workers', tasks[t].workerId).status = Online
          /\ GetWorker(workers', tasks[t].workerId).currentTaskId = NoTask]_vars

\* a task has just completed on a registered worker: the worker is released, the
\* next task still waits for the dispatchNext() that follows the completion
C8_Witness ==
  \E t \in DOMAIN tasks :
    /\ tasks[t].status = Completed
    /\ HasWorker(workers, tasks[t].workerId)
    /\ GetWorker(workers, tasks[t].workerId).status = Online
    /\ GetWorker(workers, tasks[t].workerId).currentTaskId = NoTask
    /\ queue # <<>>
    /\ pendingDispatch > 0

\* C9: the step in which a Running task becomes Cancelled puts a task:cancel for
\* it on the connection of the assigned worker and leaves that worker, if
\* registered, Online with currentTaskId null
C9_CancelRunningSendsCancel ==
  [][\A t \in DOMAIN tasks :
       (tasks[t].status = Running /\ tasks'[t].status = Cancelled)
       => LET w == tasks[t].workerId IN
          /\ w \in DOMAIN connections
          /\ Len(toWorker'[connections[w]]) = Len(toWorker[connections[w]]) + 1
          /\ LET sent == toWorker'[connections[w]][Len(toWorker'[connections[w]])]
             IN sent.type = "task:cancel" /\ sent.taskId = t
          /\ HasWorker(workers', w) =>
               /\ GetWorker(workers', w).status = Online
               /\ GetWorker(workers', w).currentTaskId = NoTask]_vars

\* C10: in every reachable state, a task:stream, task:complete or task:error for
\* a task that is not Running leaves the coordinator's state as it is (tasks,
\* workers, queue, timers, frames sent, callbacks fired), and so does cancelTask
\* for a terminal task, which returns false
C10_LateOperationsAreNoOps ==
  LET c == Ctx IN
  \A t \in DOMAIN tasks :
    /\ tasks[t].status # Running =>
         /\ \A eventType \in {"assistant_message", "tool_use_end", "error"},
               intervalPassed \in BOOLEAN :
              handleStreamUpdate(c, t, createMessage("task:stream", eventType, t, NULL, NoTask),
                                 intervalPassed) = c
         /\ handleTaskComplete(c, t, createMessage("task:complete", "", t, NULL, NoTask)) = c
         /\ handleTaskError(c, t, createMessage("task:error", "EXIT_1", t, NULL, NoTask)) = c
    /\ tasks[t].status \in TerminalStatus =>
         \A reason \in {USER_REASON, TIMEOUT_REASON} :
           cancelTask(c, t, reason) = [c EXCEPT !.ret = "false"]

\* a terminal task that its worker still runs on an open, registered connection
\* while another task is Running: the worker's frames for it are still to come
C10_Witness ==
  \E t, u \in DOMAIN tasks, n \in WorkerNames :
    /\ tasks[t].status \in TerminalStatus
    /\ tasks[u].status = Running
    /\ wTask[n] = t
    /\ wConn[n] # NoConn /\ connState[wConn[n]] = "open" /\ connWorkerId[wConn[n]] = n

\* C11: the step in which the task timer of a Running task expires is a
\* cancellation of that task: the task becomes Cancelled, a task:cancel for it
\* is put on the connection of its worker, the worker, if registered, is Online
\* with currentTaskId null, and one more dispatchNext() is left to come
C11_TimeoutIsSelfCancellation ==
  [][\A t \in DOMAIN tasks :
       (tasks[t].status = Running /\ TaskTimeout(t))
       => LET w == tasks[t].workerId IN
          /\ tasks'[t].status = Cancelled
          /\ pendingDispatch' = pendingDispatch + 1
          /\ HasWorker(workers', w) =>
               /\ GetWorker(workers', w).status = Online
               /\ GetWorker(workers', w).currentTaskId = NoTask
          /\ w \in DOMAIN connections
          /\ toWorker'[connections[w]] =
               Append(toWorker[connections[w]],
                      createMessage("task:cancel", TIMEOUT_REASON, t, w, NoTask))]_vars

\* C12: the step in which the task timer of a Running task expires leaves the
\* task Failed
C12_TimeoutFailsTask ==
  [][\A t \in DOMAIN tasks :
       (tasks[t].status = Running /\ TaskTimeout(t)) => tasks'[t].status = Failed]_vars

\* C13: a createTask step taken while the queue holds TASK_MAX_QUEUE_SIZE ids
\* records no new task and leaves the queue as it is
C13_FullQueueRejectsCreate ==
  [][(Len(queue) = TASK_MAX_QUEUE_SIZE /\ taskIdCounter' # taskIdCounter)
       => /\ DOMAIN tasks' = DOMAIN tasks
          /\ \A t \in DOMAIN tasks' \ DOMAIN tasks : tasks'[t].status # Queued
          /\ queue' = queue]_vars

\* C14: the queue never holds more than TASK_MAX_QUEUE_SIZE ids; in every
\* reachable state enqueue returns false and changes nothing when the queue
\* holds TASK_MAX_QUEUE_SIZE ids, and otherwise appends the id at the tail and
\* returns true
C14_QueueBounded ==
  LET c == Ctx IN
  /\ Len(queue) <= TASK_MAX_QUEUE_SIZE
  /\ \A taskId \in 1..(MaxQueueTasks + 1) :
       IF Len(queue) = TASK_MAX_QUEUE_SIZE
       THEN enqueue(c, taskId) = [c EXCEPT !.ret = "false"]
       ELSE enqueue(c, taskId) = [c EXCEPT !.queue = queue \o <<taskId>>, !.ret = "true"]

\* the queue is full and one task more than it holds has been created since:
\* an enqueue on the full queue has taken place
C14_Witness ==
  /\ Len(queue) = TASK_MAX_QUEUE_SIZE
  /\ taskIdCounter > TASK_MAX_QUEUE_SIZE
  /\ queue[Len(queue)] = TASK_MAX_QUEUE_SIZE

\* C15: a step that takes a task from Queued to Running takes the head of the
\* queue and only the head, and no task created after it has been dispatched
\* before it
C15_DispatchTakesHead ==
  [][\A t \in DOMAIN tasks :
       (tasks[t].status = Queued /\ tasks'[t].status = Running)
       => /\ queue # <<>> /\ t = Head(queue)
          /\ queue' = Tail(queue)
          /\ \A u \in DOMAIN tasks :
               /\ u > t => tasks[u].status \in {Queued, Cancelled} /\ tasks[u].workerId = NULL
               /\ u # t => tasks'[u].status # Running \/ tasks[u].status = Running]_vars

\* the second task is Running after the first one was dispatched before it
C15_Witness ==
  /\ taskIdCounter = 2
  /\ tasks[1].workerId # NULL
  /\ tasks[2].status = Running

\* C16: in every reachable state where worker w is registered and Online and
\* the queue is empty, a task created with options.workerId = w and dispatched
\* at once is Running on w
C16_PreferredWorkerGetsTask ==
  LET c == Ctx IN
  \A w \in WorkerNames :
    (queue = <<>> /\ HasWorker(workers, w) /\ GetWorker(workers, w).status = Online)
    => LET c1 == dispatchNext(createTask(c, [workerId |-> w]))
           taskId == c1.taskIdCounter
       IN /\ c1.tasks[taskId].status = Running
          /\ c1.tasks[taskId].workerId = w

\* C17: in every reachable state where the queue is empty or no registered
\* worker is Online, dispatchNext returns the coordinator's state as it is:
\* tasks, queue, worker records, round-robin index, timers, frames sent and
\* callbacks fired
C17_DispatchWithoutWorkIsNoOp ==
  LET c == Ctx IN
  (queue = <<>> \/ Len(onlineWorkers(workers)) = 0) => dispatchNext(c) = c

\* a dispatchNext() is still to come while a task waits in the queue and the
\* only registered workers are Busy; the round-robin index has moved before
C17_Witness ==
  /\ pendingDispatch > 0
  /\ queue # <<>>
  /\ workers # <<>>
  /\ Len(onlineWorkers(workers)) = 0
  /\ roundRobinIndex > 0

C20_WrongSecretIsRejected ==
  \A conn \in ConnIds, n \in WorkerNames :
    connState[conn] = "none" =>
      LET c == [Ctx EXCEPT !.connState[conn] = "open"]
          msg == createMessage("worker:register", "wrong", NoTask, n, NoTask)
      IN onMessage(c, conn, NULL, msg, TRUE) =
           [Ctx EXCEPT !.connState[conn] = "closed", !.ret = "false"]

\* a connection was closed on a rejected registration, after a worker had
\* registered on another one and been given a task
C20_Witness ==
  \E conn \in ConnIds :
    /\ connState[conn] = "closed" /\ connWorkerId[conn] = NULL
    /\ \E i \in DOMAIN workers : workers[i].status = Busy /\ connections[workers[i].id] < conn

\* C19: after every step, each registered worker has a watchdog armed for
\* exactly 2 * WS_HEARTBEAT_INTERVAL_MS after its lastHeartbeat (the time of its
\* registration or of its last worker:heartbeat) and that moment has not been
\* passed, and only registered workers have one; a step in which the watchdog
\* removes a worker is taken exactly 2 * WS_HEARTBEAT_INTERVAL_MS after the
\* worker's lastHeartbeat
C19_WatchdogAfterSilence ==
  [][/\ \A i \in DOMAIN workers' :
          /\ workers'[i].id \in DOMAIN heartbeatTimers'
          /\ heartbeatTimers'[workers'[i].id] = workers'[i].lastHeartbeat + WS_HEARTBEAT_INTERVAL_MS * 2
          /\ now' <= workers'[i].lastHeartbeat + WS_HEARTBEAT_INTERVAL_MS * 2
     /\ \A w \in DOMAIN heartbeatTimers' : HasWorker(workers', w)
     /\ \A n \in WorkerNames :
          (HasWorker(workers, n) /\ WorkerHeartbeat(n) /\ connWorkerId[wConn[n]] = n /\ connState[wConn[n]] = "open")
          => /\ HasWorker(workers', n)
             /\ heartbeatTimers'[n] = now + WS_HEARTBEAT_INTERVAL_MS * 2
     /\ \A w \in WorkerNames :
          WatchdogExpires(w)
          => /\ now = GetWorker(workers, w).lastHeartbeat + WS_HEARTBEAT_INTERVAL_MS * 2
             /\ ~HasWorker(workers', w)]_vars

\* a worker was removed by the watchdog (its connection is still open) while
\* the other worker, whose last heartbeat came later, is still registered at a
\* time when a watchdog armed at registration would have expired
C19_Witness ==
  \E n, m \in WorkerNames :
    /\ wConn[n] # NoConn /\ connState[wConn[n]] = "open" /\ connWorkerId[wConn[n]] = n
    /\ ~HasWorker(workers, n)
    /\ HasWorker(workers, m)
    /\ GetWorker(workers, m).lastHeartbeat > 0
    /\ now > WS_HEARTBEAT_INTERVAL_MS * 2

\* C21: in every reachable state, a frame other than worker:register received
\* on a connection that has not registered - a heartbeat, or a task:stream,
\* task:complete or task:error for any task, under any worker name - closes
\* that connection and leaves tasks, queue, registry, timers and frames sent as
\* they are, with no callback fired
C21_UnauthenticatedFramesAreDropped ==
  \A conn \in ConnIds :
    connState[conn] = "none" =>
      LET c == [Ctx EXCEPT !.connState[conn] = "open"]
          closed == [Ctx EXCEPT !.connState[conn] = "closed"]
      IN /\ \A n \in WorkerNames, taskId \in DOMAIN tasks \cup {NoTask} :
              onMessage(c, conn, NULL,
                        createMessage("worker:heartbeat", "", NoTask, n, taskId), TRUE) = closed
         /\ \A n \in WorkerNames, taskId \in DOMAIN tasks,
               type \in {"task:stream", "task:complete", "task:error"} :
              onMessage(c, conn, NULL, createMessage(type, "", taskId, n, NoTask), TRUE) = closed

\* a connection was closed without a registration while the task that the
\* unregistered client's frames name is Running on a registered worker
C21_Witness ==
  \E conn \in ConnIds :
    /\ connState[conn] = "closed" /\ connWorkerId[conn] = NULL
    /\ 1 \in DOMAIN tasks /\ tasks[1].status = Running
    /\ HasWorker(workers, tasks[1].workerId)

\* C22: the step in which the coordinator receives a worker's task:stream,
\* task:complete or task:error for the Running task that worker executes
\* applies the frame's effect on the task (text appended, status Completed,
\* status Failed with the reported error) in that same step, and the part of a
\* handler that runs after a suspension (the trailing dispatchNext) changes no
\* task other than a Queued one: frames of one connection take effect in the
\* order received
C22_FramesTakeEffectOnReceipt ==
  [][/\ \A n \in WorkerNames :
          (/\ wRunning(n) /\ wTask[n] \in DOMAIN tasks /\ tasks[wTask[n]].status = Running
           /\ wConn[n] # NoConn /\ connState[wConn[n]] = "open" /\ connWorkerId[wConn[n]] = n)
          => /\ (wTask'[n] = NoTask /\ WorkerProcessExit(n, TRUE)) =>
                  tasks'[wTask[n]].status = Completed
             /\ (wTask'[n] = NoTask /\ WorkerProcessExit(n, FALSE)) =>
                  /\ tasks'[wTask[n]].status = Failed
                  /\ tasks'[wTask[n]].errorMessage = "EXIT_1"
             /\ (wTask' = wTask /\ queue' = queue /\ WorkerStream(n, "assistant_message")) =>
                  /\ tasks'[wTask[n]].status = Running
                  /\ tasks'[wTask[n]].resultText =
                       (IF tasks[wTask[n]].resultText = NullText THEN <<>>
                        ELSE tasks[wTask[n]].resultText) \o <<"a">>
     /\ (pendingDispatch' = pendingDispatch - 1 /\ ResumeDispatch) =>
          \A t \in DOMAIN tasks : tasks[t].status # Queued => tasks'[t] = tasks[t]]_vars

\* the handler of a worker's task:complete is still suspended before its
\* dispatchNext() while the same worker already executes the next task, whose
\* frames will be handled first
C22_Witness ==
  \E t, u \in DOMAIN tasks, n \in WorkerNames :
    /\ tasks[t].status = Completed /\ tasks[t].workerId = n
    /\ tasks[u].status = Running /\ tasks[u].workerId = n
    /\ wTask[n] = u
    /\ pendingDispatch > 0

\* C23: the step in which a tool_use_end for tool name N is handled for a
\* Running task keeps the number of history entries and their tool names in
\* order; if no entry with name N is running the history is unchanged;
\* otherwise the last such entry, and no other, changes: its status becomes
\* completed or error according to the event and its summary is the event's
C23_ToolEndUpdatesLastRunning ==
  [][\A toolName \in ToolNames, success \in BOOLEAN :
       (/\ wTask' = wTask /\ wRunning("w1") /\ IsRunning(Ctx, wTask["w1"])
        /\ WorkerToolEvent("w1", "tool_use_end", toolName, success))
       => LET h == tasks[wTask["w1"]].toolHistory
              g == tasks'[wTask["w1"]].toolHistory
              running == {i \in DOMAIN h : h[i].toolName = toolName /\ h[i].status = "running"}
          IN /\ Len(g) = Len(h)
             /\ \A i \in DOMAIN h : g[i].toolName = h[i].toolName
             /\ running = {} => g = h
             /\ running # {} =>
                  \E k \in running :
                    /\ \A j \in running : j <= k
                    /\ g[k].status = (IF success THEN "completed" ELSE "error")
                    /\ g[k].summary = "end"
                    /\ \A i \in DOMAIN h : i # k => g[i] = h[i]]_vars

\* of two uses of the same tool begun one after the other, the later one has
\* ended and the earlier one is still running
C23_Witness ==
  \E t \in DOMAIN tasks :
    LET h == tasks[t].toolHistory IN
    /\ Len(h) >= 2
    /\ h[1].toolName = h[2].toolName
    /\ h[1].status = "running" /\ h[1].summary = "begin"
    /\ h[2].status = "error" /\ h[2].summary = "end"

\* C24: no step lowers any of the four token counters of a task
C24_TokenCountersNeverDecrease ==
  [][\A t \in DOMAIN tasks :
       /\ tasks'[t].tokenUsage.inputTokens >= tasks[t].tokenUsage.inputTokens
       /\ tasks'[t].tokenUsage.outputTokens >= tasks[t].tokenUsage.outputTokens
       /\ tasks'[t].tokenUsage.cacheReadTokens >= tasks[t].tokenUsage.cacheReadTokens
       /\ tasks'[t].tokenUsage.cacheWriteTokens >= tasks[t].tokenUsage.cacheWriteTokens]_vars

\* C25: two invocations of onTaskStreamUpdate for a task are at least
\* DISCORD_STATUS_UPDATE_INTERVAL_MS apart: when an invocation is made, by the
\* handler of a stream update or by the trailing timer, the task's previous
\* invocation is at least that long ago
C25_UpdatesAtLeastIntervalApart ==
  [][\A t \in DOMAIN lastUpdateTime :
       \/ TrailingUpdate(t)
       \/ (t \in DOMAIN lastUpdateTime' /\ lastUpdateTime'[t] # lastUpdateTime[t])
       => now - lastUpdateTime[t] >= DISCORD_STATUS_UPDATE_INTERVAL_MS]_vars

\* how often an operation invoked callback cb for task taskId
Invocations(c, cb, taskId) ==
  Cardinality({i \in DOMAIN c.fired : c.fired[i] = <<cb, taskId>>})

TerminalCallback(status) ==
  CASE status = Completed -> "onTaskCompleted"
    [] status = Failed -> "onTaskFailed"
    [] status = Cancelled -> "onTaskCancelled"

\* the frames a worker's socket may deliver for a task
TaskFrames ==
  {createMessage(type, "", taskId, NULL, NoTask) @@ [tokenUsage |-> ZeroTokens] :
     type \in {"task:complete", "task:error"}, taskId \in TaskIds}

\* the outcome of every operation of the coordinator that can run in the
\* current state, up to the operation's next await
OperationOutcomes ==
  {AwaitThenDispatch(createTask(Ctx, options)) : options \in TaskCreateOptions}
  \cup {dispatchNext(Ctx)}
  \cup {cancelTask(Ctx, taskId, reason) :
          taskId \in DOMAIN tasks, reason \in {USER_REASON, TIMEOUT_REASON}}
  \cup {failRunningTasksFrom([Ctx EXCEPT !.failScans = @ \ {scan}], scan.workerId, scan.next) :
          scan \in failScans}
  \cup {handleDisconnect(Ctx, workerId) : workerId \in DOMAIN heartbeatTimers}
  \cup {onClose(Ctx, conn, connWorkerId[conn]) : conn \in {k \in ConnIds : connState[k] = "open"}}
  \cup UNION {{onMessage(Ctx, conn, connWorkerId[conn], msg, FALSE) : msg \in TaskFrames} :
               conn \in {k \in ConnIds : connState[k] = "open"}}

\* C26: an operation invokes onTaskStarted for a task once if it moved the task
\* to Running and not otherwise, and invokes the callback of a terminal status
\* (onTaskCompleted, onTaskFailed, onTaskCancelled) for a task once if it moved
\* the task to that status and not otherwise
C26_CallbacksMatchTransitions ==
  \A c \in OperationOutcomes : \A t \in DOMAIN c.tasks :
    LET old == IF t \in DOMAIN tasks THEN tasks[t].status ELSE "none"
        new == c.tasks[t].status
    IN /\ Invocations(c, "onTaskStarted", t) = (IF old # new /\ new = Running THEN 1 ELSE 0)
       /\ \A status \in TerminalStatus :
            Invocations(c, TerminalCallback(status), t)
              = (IF old # new /\ new = status THEN 1 ELSE 0)

\* a worker's socket is open while one task runs on a worker and the other has
\* ended: a frame for either task, a cancellation of either and the close of
\* the socket are among the operations
C26_Witness ==
  /\ \E conn \in ConnIds : connState[conn] = "open" /\ connWorkerId[conn] # NULL
  /\ \E t \in DOMAIN tasks : tasks[t].status = Running
  /\ \E t \in DOMAIN tasks : tasks[t].status \in TerminalStatus
  /\ \E c \in OperationOutcomes : \E t \in DOMAIN tasks :
       tasks[t].status = Running /\ c.tasks[t].status = Failed
         /\ Invocations(c, "onTaskFailed", t) = 1

\* C27: getAvailableWorker returns only a registered worker whose status is
\* Online; it returns the preferred worker if that one is registered and
\* Online; and it returns nothing exactly when no registered worker is Online
C27_AvailableWorkerIsOnline ==
  \A preferredWorkerId \in WorkerNames \cup {NULL} :
    LET worker == getAvailableWorker(Ctx, preferredWorkerId).worker
        IsOnline(w) == HasWorker(workers, w) /\ GetWorker(workers, w).status = Online
    IN /\ worker # NULL => IsOnline(worker)
       /\ (preferredWorkerId # NULL /\ IsOnline(preferredWorkerId)) => worker = preferredWorkerId
       /\ worker = NULL <=> ~ \E w \in WorkerNames : IsOnline(w)

\* the preferred worker is registered but Busy while another is Online, and
\* the other is returned
C27_Witness ==
  /\ HasWorker(workers, "w1") /\ GetWorker(workers, "w1").status = Busy
  /\ HasWorker(workers, "w2") /\ GetWorker(workers, "w2").status = Online
  /\ getAvailableWorker(Ctx, "w1").worker = "w2"
  /\ getAvailableWorker(Ctx, "w2").worker = "w2"

\* C28: for a task whose worker-side timer expired while the CLI was running,
\* every terminal frame the worker sends is a task:error with code TIMEOUT
C28_TimeoutReportsTimeoutError ==
  \A i \in DOMAIN wApp.sent :
    wApp.sent[i].taskId \in wApp.timedOut =>
      wApp.sent[i].type = "task:error" /\ wApp.sent[i].code = "TIMEOUT"

\* the worker has finished a task: it sent the task's terminal frame, the task
\* is no longer its current one and no CLI process is left
WorkerFinished(taskId) ==
  /\ \E i \in DOMAIN wApp.sent : wApp.sent[i].taskId = taskId
  /\ wApp.currentTaskId # taskId
  /\ ~wApp.running

\* C29: once the worker has finished a task, the task's temp directory does not exist
C29_TempDirRemovedWhenFinished ==
  \A taskId \in 1..wApp.assigned : WorkerFinished(taskId) => taskId \notin wApp.tmpDirs

\* C30: the delay of an armed reconnect timer, after k transport closes without
\* a successful registration in between, is min(1000 * 2^(k-1), 60000) ms
\* adjusted by at most 20% up or down
C30_ReconnectDelayIsCappedBackoff ==
  LET w == wApp.wsClient
      nominal == Min(WS_RECONNECT_BASE_MS * Pow2(w.closes - 1), WS_RECONNECT_MAX_MS)
  IN w.reconnectTimer # 0 =>
       /\ 10 * w.reconnectTimer >= 8 * nominal
       /\ 10 * w.reconnectTimer <= 12 * nominal

\* C31: once shutdown() has been called no reconnect timer is armed and no
\* connection attempt is under way or open: the client never connects again
C31_NoConnectAfterShutdown ==
  wApp.wsClient._shutdown =>
    /\ wApp.wsClient.reconnectTimer = 0
    /\ wApp.wsClient.ws \in {"closing", "none"}

\* the client was shut down after several closes and reconnects, and the
\* close caused by the shutdown has been handled
C31_Witness ==
  /\ wApp.wsClient._shutdown
  /\ wApp.wsClient.ws = "none"
  /\ wApp.wsClient.closes >= 2
  /\ wApp.wsClient.reconnectAttempts >= 1

\* C32: however the text written so far was cut into chunks, the events
\* returned by the calls of parse(), concatenated, and the buffer left are
\* those of a single parse() of that text by a fresh parser
C32_ChunkingDoesNotChangeEvents ==
  LET p == wApp.parser
      whole == parse(<<>>, SubSeq(p.stdout, 1, p.fed))
  IN p.events = whole.events /\ p.buffer = whole.buffer

\* two records were written and fed one character at a time, so that cuts
\* fell inside both records, and both events have been returned
C32_Witness ==
  /\ wApp.parser.stdout = <<"r", "r", "\n", "a", "a", "\n">>
  /\ wApp.parser.fed = 6
  /\ wApp.parser.chunks = 6
  /\ wApp.parser.events = <<"result", "assistant_message">>

\* the task:stream frames a worker's socket may deliver for a task
StreamFrames ==
  {createMessage("task:stream", eventType, taskId, NULL, NoTask)
     @@ [toolName |-> "Read", summary |-> "end", success |-> TRUE] :
     eventType \in {"assistant_message", "tool_use_end"}, taskId \in TaskIds}

\* C33: a task in a terminal status has neither its task-timeout timer nor its
\* throttle trailing timer armed, and no task:stream frame for it, on any open
\* socket, invokes onTaskStreamUpdate
C33_NoTimerAfterTerminal ==
  \A t \in DOMAIN tasks :
    tasks[t].status \in TerminalStatus =>
      /\ t \notin timeoutTimers
      /\ t \notin DOMAIN updateTimers
      /\ \A conn \in {k \in ConnIds : connState[k] = "open"} :
           \A msg \in {m \in StreamFrames : m.taskId = t}, intervalPassed \in BOOLEAN :
             Invocations(onMessage(Ctx, conn, connWorkerId[conn], msg, intervalPassed),
                         "onTaskStreamUpdate", t) = 0

\* a task that had streamed text has failed, while another task runs with both
\* of its timers armed and the socket of a registered worker is open
C33_Witness ==
  /\ \E t \in DOMAIN tasks : tasks[t].status = Failed /\ tasks[t].resultText = <<"a">>
  /\ \E t \in DOMAIN tasks :
       tasks[t].status = Running /\ t \in timeoutTimers /\ t \in DOMAIN updateTimers
  /\ \E conn \in ConnIds : connState[conn] = "open" /\ connWorkerId[conn] # NULL

\* C34: a task that is Running reaches a terminal status, whatever its worker
\* does or fails to do, given only that an armed task-timeout timer expires
C34_RunningTaskTerminates ==
  \A t \in TaskIds :
    (t \in DOMAIN tasks /\ tasks[t].status = Running)
      ~> (t \in DOMAIN tasks /\ tasks[t].status \in TerminalStatus)

\* the timer has ended a task whose worker is still registered and still runs
\* the task's CLI, having sent neither task:complete nor task:error
C34_Witness ==
  \E t \in DOMAIN tasks : \E n \in WorkerNames :
    /\ tasks[t].status = Cancelled
    /\ tasks[t].workerId = n
    /\ HasWorker(workers, n)
    /\ wRunning(n) /\ wTask[n] = t

\* the worker has sent task:complete or task:error for the task
Answered(taskId) ==
  \E i \in DOMAIN wApp.sent :
    wApp.sent[i].taskId = taskId /\ wApp.sent[i].type \in {"task:complete", "task:error"}

\* C35: a task:assign that arrives while the CLI process of an earlier task,
\* killed on a task:cancel, is still shutting down is not discarded: after the
\* handler the worker has answered it with task:complete or task:error, or it
\* is the worker's current task, whose answer is still to come
C35_NoAssignmentDiscarded ==
  [][(/\ wApp.running
      /\ wApp.signal # "none"
      /\ wApp.killWait = NoTask
      /\ wApp'.assigned = wApp.assigned + 1)
     => (Answered(wApp.assigned + 1)' \/ wApp'.currentTaskId = wApp.assigned + 1)]_vars

\* C36: when a connection closes on which a worker had registered, and that
\* worker's name is by then registered on another, newer connection, the new
\* registration stays as it is and every Running task that the worker's
\* record holds stays Running
C36_OldCloseSparesNewRegistration ==
  [][\A conn \in ConnIds :
       LET n == connWorkerId[conn] IN
       (/\ connState[conn] = "open"
        /\ connState'[conn] = "closed"
        /\ n # NULL
        /\ n \in DOMAIN connections
        /\ connections[n] # conn)
       => /\ HasWorker(workers', n)
          /\ n \in DOMAIN connections' /\ connections'[n] = connections[n]
          /\ \A t \in DOMAIN tasks :
               (/\ tasks[t].status = Running
                /\ tasks[t].workerId = n
                /\ GetWorker(workers, n).currentTaskId = t)
               => tasks'[t].status = Running]_vars

\* C37: a task:stream, task:complete or task:error frame that arrives on the
\* connection of a registered worker X for a task that is Running on another
\* worker Y leaves the task and the record of Y as they are
C37_OnlyAssignedWorkerChangesTask ==
  \A conn \in {k \in ConnIds : connState[k] = "open" /\ connWorkerId[k] # NULL} :
    \A msg \in TaskFrames \cup StreamFrames, intervalPassed \in BOOLEAN :
      LET X == connWorkerId[conn]
          t == msg.taskId
      IN (t \in DOMAIN tasks /\ tasks[t].status = Running /\ tasks[t].workerId # X)
         => LET Y == tasks[t].workerId
                c == onMessage(Ctx, conn, X, msg, intervalPassed)
            IN /\ c.tasks[t] = tasks[t]
               /\ HasWorker(workers, Y) =>
                    HasWorker(c.workers, Y) /\ GetWorker(c.workers, Y) = GetWorker(workers, Y)

\* C38: a task id is in the queue exactly if the task's status is Queued, and
\* no task id is in the queue twice
C38_QueueHoldsExactlyTheQueued ==
  /\ \A t \in DOMAIN tasks :
       (\E i \in DOMAIN queue : queue[i] = t) <=> tasks[t].status = Queued
  /\ \A i \in DOMAIN queue : queue[i] \in DOMAIN tasks
  /\ \A i, j \in DOMAIN queue : queue[i] = queue[j] => i = j

\* the terminal frames (task:complete, task:error) the worker sent for a task
TerminalFrames(taskId) ==
  {i \in DOMAIN wApp.sent :
     wApp.sent[i].taskId = taskId /\ wApp.sent[i].type \in {"task:complete", "task:error"}}

\* C39: the worker has sent at most one terminal frame for each task id
C39_AtMostOneTerminalFrame ==
  \A taskId \in 1..wApp.assigned : Cardinality(TerminalFrames(taskId)) <= 1

\* the worker's timer expired for a task and killed the CLI, the process has
\* exited and closed, so that both the timer's callback and handleProcessExit
\* have run, and one terminal frame was sent for the task
C39_Witness ==
  \E taskId \in wApp.timedOut :
    /\ Cardinality(TerminalFrames(taskId)) = 1
    /\ wApp.killWait = NoTask
    /\ wApp.process = "none"
    /\ ~wApp.running

\* C40: when a worker's socket is open and was registered under the worker's
\* name, no other connection ever was, and the worker is no longer in the
\* registry (only the heartbeat watchdog can have removed it), a heartbeat of
\* the worker on that socket registers it again as Online, so that
\* getAvailableWorker can return it
C40_HeartbeatRestoresRemovedWorker ==
  \A n \in WorkerNames :
    (/\ wConn[n] # NoConn
     /\ connState[wConn[n]] = "open"
     /\ connWorkerId[wConn[n]] = n
     /\ \A k \in ConnIds \ {wConn[n]} : connWorkerId[k] # n
     /\ ~HasWorker(workers, n))
    => LET msg == createMessage("worker:heartbeat", "", NoTask, n, wTask[n])
           c == onMessage(Ctx, wConn[n], n, msg, TRUE)
       IN /\ HasWorker(c.workers, n)
          /\ GetWorker(c.workers, n).status = Online
          /\ getAvailableWorker(c, n).worker = n

====
